---- MODULE Spec2Model ----
(***************************************************************************)
(* Model of qlever-proxy.py: the front server (RequestHandler.do_GET), the *)
(* dispatcher (QueryProcessor.query, query_backends_in_parallel), the      *)
(* backend client (Backend.query, show_cache_stats), the response envelope *)
(* (Response.__init__) and the Name Service (ConfigForAddTriple,           *)
(* QleverNameService.enhance_query).                                       *)
(***************************************************************************)
EXTENDS Integers, Sequences, FiniteSets, TLC

\* ------------------------------------------------------------------ bounds
\* Number of inbound GET requests served (one after the other).
NumReqs == 2
\* Deadlines in clock ticks (--timeout-1, --timeout-2, --timeout).
Timeout1 == 1
Timeout2 == 2
TimeoutNormal == 3
\* Projected variables of a SPARQL query and --add-triple configurations.
NumVars == 1
NumConfigs == 2
\* Projected variables of the queries enhance_query is run on by itself.
MaxSelectVars == 2
\* Words after the closing brace of the queries get_query_parts is run on
\* by itself.
MaxTailLen == 4

Reqs == 1..NumReqs
BackendIds == {1, 2}

Max(a, b) == IF a >= b THEN a ELSE b

\* Python's None.
None == [tag |-> "None"]
\* A local variable that no statement has assigned yet.
Unassigned == [tag |-> "Unassigned"]

VARIABLES
  qlever_name_service,  \* the QleverNameService of line 1045, or None
  pin_results_2,        \* --pin-results-backend-2
  kind,                 \* per request: the form of the inbound path
  pc,                   \* per request: position of do_GET
  arm,                  \* per request and backend: the worker thread's call
  hcall,                \* per request: the call do_GET's own thread is in
  result_queue,         \* per request: queue.Queue() of (response, backend_id)
  got,                  \* per request: the pairs read by result_queue.get()
  deposits,             \* per request and backend: number of queue.put calls
  response,             \* per request: local `response` of the dispatcher
  backend_id,           \* per request: local `backend_id`
  backend_1_error_data, \* per request: local `backend_1_error_data`
  label,                \* per request: BEST / FALLBACK / WORST log line
  enh,                  \* per request: local variables of enhance_query
  sent,                 \* per request: upstream GETs issued, in order
  out,                  \* per request: responses written to the caller
  elapsed               \* per request: ticks since do_GET started

vars == << qlever_name_service, pin_results_2, kind, pc, arm,
           hcall, result_queue, got, deposits, response, backend_id,
           backend_1_error_data, label, enh, sent, out, elapsed >>

\* ------------------------------------------------------- backend configs
\* Variant of timeout_seconds: both backends built with --timeout.
timeout_seconds_normal(b) == TimeoutNormal

\* Variant of timeout_seconds: the two deadlines exchanged.
timeout_seconds_swapped(b) == IF b = 1 THEN Timeout2 ELSE Timeout1

\* Backend(args.backend_1, args.timeout_1, 1) and
\* Backend(args.backend_2, args.timeout_2, 2, args.pin_results_2, ...).
timeout_seconds(b) == IF b = 1 THEN Timeout1 ELSE Timeout2

pin_results(b) == IF b = 1 THEN FALSE ELSE pin_results_2

\* show_cache_stats defaults to True in Backend.__init__ and
\* --show-cache-stats-2 is store_true with default True.
always_show_cache_stats(b) == TRUE

\* ------------------------------------------------------ response envelope
Headers == {"Content-Type", "Access-Control-Allow-Origin"}

\* The upstream's answer to one GET: an exception of the connection pool,
\* or a status with headers and a body.
TransportErrors ==
  {"socket.timeout", "ReadTimeoutError", "MaxRetryError", "OtherError"}

\* The body of an answer holds no "resultsize": N.
NoResultSize == 0 - 1

Outcomes ==
  [exc : TransportErrors, status : {0}, headers : {{}}, json : {"-"},
   resultsize : {0}]
  \cup [exc : {"none"}, status : {500}, headers : {{}}, json : {"-"},
        resultsize : {0}]
  \cup [exc : {"none"}, status : {200}, headers : SUBSET Headers,
        json : {"ok", "unparsable"}, resultsize : {NoResultSize, 0, 1}]
  \cup [exc : {"none"}, status : {200}, headers : {Headers},
        json : {"error"}, resultsize : {0}]

\* The body bytes of an upstream answer.
UpstreamData(b, path, o) ==
  [tag |-> "upstream", backend |-> b, path |-> path, json |-> o.json,
   resultsize |-> o.resultsize]

\* The urllib3 HTTPResponse of an upstream answer.
HttpResponse(b, path, o) ==
  [tag |-> "http", status |-> o.status,
   headers |-> {<<h, "upstream">> : h \in o.headers},
   data |-> UpstreamData(b, path, o)]

\* Response.__init__, lines 502-513: the synthesised error JSON.
ProxyErrorData(query_path, error_msg) ==
  [tag |-> "proxy", query |-> query_path, status |-> "ERROR",
   resultsize |-> "0", exception |-> error_msg]

\* Variant of Response: line 526 is missing, http_response is not reset.
ResponseKeepsHttp(http_response, query_path, error_msg) ==
  IF http_response = None
  THEN [http_response |-> None,
        error_data |-> ProxyErrorData(query_path, error_msg)]
  ELSE IF http_response.data.json = "error"
       THEN [http_response |-> http_response,
             error_data |-> http_response.data]
       ELSE [http_response |-> http_response, error_data |-> None]

\* Response.__init__(http_response=..., query_path=..., error_msg=...).
Response(http_response, query_path, error_msg) ==
  IF http_response = None
  THEN [http_response |-> None,
        error_data |-> ProxyErrorData(query_path, error_msg)]
  ELSE IF http_response.data.json = "error"
       THEN [http_response |-> None, error_data |-> http_response.data]
       ELSE [http_response |-> http_response, error_data |-> None]

IsOk(resp) == resp.http_response # None
IsProxyError(resp) == resp.http_response = None /\ resp.error_data.tag = "proxy"
IsBackendError(resp) ==
  resp.http_response = None /\ resp.error_data.tag = "upstream"

\* --------------------------------------------------------- backend client
\* The query path handed to Backend.query: the inbound path, one of the two
\* queries of a YAML envelope, the re-encoded enhanced query, or a probe.
Path(r, q, vi, ci) == [req |-> r, q |-> q, vi |-> vi, ci |-> ci]

\* A call of Backend.query in progress. override is the keyword argument
\* pin_results_override: "absent" or "False".
NoCall ==
  [phase |-> "idle", backend |-> 0, path |-> None, timeout |-> 0,
   override |-> "absent", clock |-> 0, http |-> None, result |-> None]

\* Variant of PinParams: the keyword argument is not looked at.
PinParamsIgnoresOverride(b, override) == pin_results(b)

\* Lines 615-616: kwargs.get("pin_results_override", self.pin_results).
PinParams(b, override) ==
  IF override = "absent" THEN pin_results(b) ELSE FALSE

\* Lines 642-643: whether show_cache_stats() follows the main GET.
ShowsCacheStats(b, override) ==
  (pin_results(b) \/ always_show_cache_stats(b)) /\ override = "absent"

\* Lines 624-632: the GET is on its way.
query_start(b, path, timeout, override) ==
  [phase |-> "main", backend |-> b, path |-> path, timeout |-> timeout,
   override |-> override, clock |-> 0, http |-> None, result |-> None]

\* What the log of upstream GETs records for a call.
SentQuery(c) ==
  [cmd |-> "query", backend |-> c.backend, path |-> c.path,
   pin |-> PinParams(c.backend, c.override), timeout |-> c.timeout]

SentCacheStats(c) ==
  [cmd |-> "cachestats", backend |-> c.backend, path |-> c.path,
   pin |-> FALSE, timeout |-> timeout_seconds(c.backend)]

\* Lines 631-633: the exception the request or the assert raises, if any.
MainRaises(o) ==
  IF o.exc # "none" THEN o.exc
  ELSE IF o.status # 200 THEN "AssertionError"
  ELSE "none"

\* Lines 668-690: any failure inside the try reaches the except clause,
\* whose return statement names query_path, which this method does not
\* define: the handler itself raises NameError.
StatsOutcomes == {"ok", "fail"}

show_cache_stats(s) == IF s = "ok" THEN "none" ELSE "NameError"

ErrorMsg(b, text, exc) == [backend |-> b, text |-> text, exc |-> exc]

\* Variant of QueryExcept without the last clause, except Exception.
QueryExceptTimeoutsOnly(b, query_path, exc) ==
  IF exc \in {"socket.timeout", "ReadTimeoutError", "MaxRetryError"}
  THEN [raised |-> FALSE,
        value |-> Response(None, query_path, ErrorMsg(b, "Timeout", exc))]
  ELSE [raised |-> TRUE, value |-> None]

\* Lines 647-666: the four except clauses of Backend.query.
QueryExcept(b, query_path, exc) ==
  IF exc \in {"socket.timeout", "ReadTimeoutError", "MaxRetryError"}
  THEN [raised |-> FALSE,
        value |-> Response(None, query_path, ErrorMsg(b, "Timeout", exc))]
  ELSE [raised |-> FALSE,
        value |-> Response(None, query_path,
                           ErrorMsg(b, "Error with request", exc))]

\* Backend.query has returned (or raised).
Finish(c, res) ==
  [c EXCEPT !.phase = IF res.raised THEN "raised" ELSE "returned",
            !.result = res.value, !.clock = 0, !.http = None]

\* Lines 631-646 after the main GET has answered with outcome o.
MainDone(c, o) ==
  LET exc == MainRaises(o)
      http == HttpResponse(c.backend, c.path, o)
  IN  IF exc # "none"
      THEN Finish(c, QueryExcept(c.backend, c.path, exc))
      ELSE IF ShowsCacheStats(c.backend, c.override)
           THEN [c EXCEPT !.phase = "stats", !.clock = 0, !.http = http]
           ELSE Finish(c, [raised |-> FALSE,
                           value |-> Response(http, c.path, None)])

\* Lines 644-646 after the cache-statistics GET has ended with outcome s.
StatsDone(c, s) ==
  LET exc == show_cache_stats(s)
  IN  IF exc # "none"
      THEN Finish(c, QueryExcept(c.backend, c.path, exc))
      ELSE Finish(c, [raised |-> FALSE,
                      value |-> Response(c.http, c.path, None)])

\* The deadline of the GET a call is waiting for: the timeout argument for
\* the main GET (line 632), self.timeout_seconds for cachestats (line 674).
Deadline(c) ==
  IF c.phase = "main" THEN c.timeout ELSE timeout_seconds(c.backend)

InFlight(c) == c.phase \in {"main", "stats"}

\* Answers a main GET can get. The header set is read only by do_GET and
\* "resultsize" only by the enhancer's probes, so each is varied only where
\* it is read.
MainOutcomes == {o \in Outcomes : o.resultsize = 0}
ProbeOutcomes == {o \in Outcomes : o.headers \in {{}, Headers}}

\* ------------------------------------------------------------ Name Service
\* A variable name is the sequence of the pieces it was put together from:
\* "?x" + "_id" is << "?x", "_id" >>, and appending "" changes nothing.
Cat(name, suffix) == IF suffix = "" THEN name ELSE Append(name, suffix)

\* The words of a query body: variables, predicates and punctuation.
VarTok(name) == [t |-> "var", name |-> name]
PredTok(p) == [t |-> "pred", p |-> p]
Dot == [t |-> "punct", s |-> "."]
Semicolon == [t |-> "punct", s |-> ";"]
Open == [t |-> "punct", s |-> "{"]
Close == [t |-> "punct", s |-> "}"]
Kw(s) == [t |-> "kw", s |-> s]

\* Predicates given to --add-triple (the first is the default of line 990)
\* and predicates as a query body writes them.
LabelIri == "@en@<http://www.w3.org/2000/01/rdf-schema#label>"
ImageIri == "<http://www.wikidata.org/prop/direct/P18>"
SubclassIri == "<http://www.wikidata.org/prop/direct/P279>"
PrefixedNames == {"rdfs:label", "wdt:P18", "wdt:P31"}

\* What follows the last / or # of an IRI, or the colon of a prefixed name.
LocalName(p) ==
  CASE p \in {LabelIri, "rdfs:label"} -> "label"
    [] p \in {ImageIri, "wdt:P18"} -> "P18"
    [] p = SubclassIri -> "P279"
    [] OTHER -> "P31"

\* Lines 104-106: the default regex "(<predicate>|\S+:<local name>)", as
\* its two alternatives.
predicate_exists_regex(predicate) ==
  [full |-> predicate, local |-> LocalName(predicate)]

\* Whether the regex matches at the start of the word p.
RegexMatches(regex, p) ==
  \/ p = regex.full
  \/ p \in PrefixedNames /\ LocalName(p) = regex.local

\* ConfigForAddTriple.__init__, lines 99-126.
ConfigForAddTriple(predicate, suffix, position) ==
  [predicate |-> predicate,
   suffix |-> suffix,
   position |-> position,
   position_repeated |-> IF predicate = LabelIri THEN 0 ELSE position,
   optional |-> suffix \in {"_image", "_coords"},
   predicate_exists_regex |-> predicate_exists_regex(predicate),
   select_variable_position |->
     IF suffix = "_image" THEN [tag |-> "int", v |-> 0]
     ELSE IF suffix = "_coords" THEN [tag |-> "int", v |-> 0 - 1]
     ELSE None]

\* The --add-triple arguments <predicate>|<suffix>|<position> and the
\* --subject-var-suffix values the model starts with.
ConfigArgs ==
  {ConfigForAddTriple(LabelIri, "", 1),
   ConfigForAddTriple(ImageIri, "_image", 0 - 1)}

SubjectVarSuffixes == {"_id", ""}

\* QleverNameService.__init__, lines 143-145 (the backend is backend_2).
QleverNameService(subject_var_suffix, configs_for_add_triple) ==
  [subject_var_suffix |-> subject_var_suffix,
   configs_for_add_triple |-> configs_for_add_triple]

\* The queries a plain SPARQL request may carry. For each projected
\* variable the body has one block: a triple without the label predicate, a
\* label triple, or a predicate-object list that holds a label.
VarNames == << << "?x" >>, << "?y" >>, << "?z" >> >>
Shapes == {"plain", "labelled", "list"}

BodyBlock(v, shape) ==
  CASE shape = "plain" ->
         << VarTok(v), PredTok("wdt:P31"), VarTok(<< "?o" >>), Dot >>
    [] shape = "labelled" ->
         << VarTok(v), PredTok("rdfs:label"), VarTok(<< "?l" >>), Dot >>
    [] OTHER ->
         << VarTok(v), PredTok("wdt:P31"), VarTok(<< "?o" >>), Semicolon,
            PredTok("rdfs:label"), VarTok(<< "?l" >>), Dot >>

RECURSIVE BodyOf(_, _)
BodyOf(shapes, n) ==
  IF n = 0 THEN << >>
  ELSE BodyOf(shapes, n - 1) \o BodyBlock(VarNames[n], shapes[n])

\* match: whether the regex of line 178 matches the query.
MatchingQueries ==
  {[match |-> TRUE, select |-> SubSeq(VarNames, 1, NumVars),
    body |-> BodyOf(shapes, NumVars),
    footer |-> << Kw("LIMIT"), Kw("10") >>] :
     shapes \in [1..NumVars -> Shapes]}
  \cup {[match |-> TRUE,
         select |-> << << "(?a" >>, << "AS" >>, << "?b)" >> >>,
         body |-> BodyBlock(<< "?a" >>, "plain"), footer |-> << >>]}

NonMatchingQueries ==
  {[match |-> FALSE, select |-> << >>, body |-> << >>,
    footer |-> << Kw("ASK") >>]}

\* The text of an added triple (lines 431-436).
TripleWords(triple) ==
  IF triple.optional
  THEN << Kw("OPTIONAL"), Open, VarTok(triple.subject),
          PredTok(triple.predicate), VarTok(triple.object), Close >>
  ELSE << VarTok(triple.subject), PredTok(triple.predicate),
          VarTok(triple.object) >>

\* " .\n".join(new_triples_list), line 235.
RECURSIVE JoinTriples(_)
JoinTriples(triples) ==
  IF triples = << >> THEN << >>
  ELSE IF Len(triples) = 1 THEN TripleWords(triples[1])
  ELSE TripleWords(triples[1]) \o << Dot >> \o JoinTriples(Tail(triples))

\* What stands between the outermost braces of a query: the body of a query
\* as it came in, and for a query built at lines 236-241 the nested SELECT
\* followed by the added triples.
Words(q) ==
  IF "inner_select" \in DOMAIN q
  THEN << Open, Kw("SELECT") >>
       \o [i \in 1..Len(q.inner_select) |-> VarTok(q.inner_select[i])]
       \o << Kw("WHERE"), Open >> \o q.body \o << Close >>
       \o q.group_by \o << Close >> \o JoinTriples(q.new_triples)
  ELSE q.body

\* Line 198: the body loses a trailing dot.
StripDot(words) ==
  IF words # << >> /\ words[Len(words)] = Dot
  THEN SubSeq(words, 1, Len(words) - 1)
  ELSE words

\* Lines 207-218: the words of the footer that belong to GROUP BY, as the
\* number of leading words: "GROUP", "BY" and the variables that follow.
RECURSIVE GroupByLen(_, _)
GroupByLen(footer, i) ==
  IF i <= Len(footer) /\ footer[i].t = "var" THEN GroupByLen(footer, i + 1)
  ELSE i - 1

\* Variant of HasGroupBy: the test of the length is len(...) >= 2.
HasGroupByOfTwoWords(footer) ==
  Len(footer) >= 2 /\ footer[1] = Kw("GROUP") /\ footer[2] = Kw("BY")

\* Lines 207-209: the footer has more than two words and starts with GROUP
\* BY.
HasGroupBy(footer) ==
  Len(footer) > 2 /\ footer[1] = Kw("GROUP") /\ footer[2] = Kw("BY")

\* Variant of get_query_parts: the test of line 180 is missing.
get_query_parts_of_any(sparql_query) ==
  [prefixes_list |-> << >>,
   select_vars_string |-> sparql_query.select,
   select_vars_list |-> sparql_query.select,
   body_string |-> StripDot(Words(sparql_query)),
   group_by_string |-> << >>,
   footer_string |-> sparql_query.footer]

\* get_query_parts, lines 177-222: None when the regex does not match; the
\* body loses its trailing dot (line 198) and GROUP BY is split from the
\* footer (lines 207-220).
get_query_parts(sparql_query) ==
  IF ~sparql_query.match THEN None
  ELSE [prefixes_list |-> << >>,
        select_vars_string |-> sparql_query.select,
        select_vars_list |-> sparql_query.select,
        body_string |-> StripDot(Words(sparql_query)),
        group_by_string |->
          IF HasGroupBy(sparql_query.footer)
          THEN SubSeq(sparql_query.footer, 1,
                      GroupByLen(sparql_query.footer, 3))
          ELSE << >>,
        footer_string |->
          IF HasGroupBy(sparql_query.footer)
          THEN SubSeq(sparql_query.footer,
                      GroupByLen(sparql_query.footer, 3) + 1,
                      Len(sparql_query.footer))
          ELSE sparql_query.footer]

\* make_sparql_query_from_parts, lines 233-241.
make_sparql_query_from_parts(prefixes_list, new_vars_list, new_triples_list, select_vars_string, body_string, group_by_string, footer_string) ==
  [match |-> TRUE,
   prefixes |-> prefixes_list,
   select |-> new_vars_list,
   inner_select |-> select_vars_string,
   body |-> body_string,
   group_by |-> group_by_string,
   new_triples |-> new_triples_list,
   footer |-> footer_string]

\* re.search(var + "\s+" + regex, body_string), lines 350-351: the variable
\* followed by white space and a word the regex matches.
SearchNameTriple(var, regex, body_string) ==
  \E i \in 1..(Len(body_string) - 1) :
    /\ body_string[i] = VarTok(var)
    /\ body_string[i + 1].t = "pred"
    /\ RegexMatches(regex, body_string[i + 1].p)

\* Only "?" is escaped at line 350: a name that opens a parenthesis makes
\* re.search raise re.error.
RegexRaises(var) == var[1] = "(?a"

\* re.sub(original_var_regex, var, ...), lines 418-423: whole words only.
RenameIn(tokens, original_var, var) ==
  [i \in 1..Len(tokens) |->
     IF tokens[i] = VarTok(original_var) THEN VarTok(var) ELSE tokens[i]]

RenameNames(names, original_var, var) ==
  [i \in 1..Len(names) |-> IF names[i] = original_var THEN var ELSE names[i]]

\* list.insert(pos, x) of Python, pos counted from 0.
ListInsert(l, pos, x) ==
  LET n == Len(l)
      p == IF pos < 0 THEN Max(n + pos, 0) ELSE IF pos > n THEN n ELSE pos
  IN  SubSeq(l, 1, p) \o << x >> \o SubSeq(l, p + 1, n)

\* l[pos] = x of Python, pos counted from 0.
ListSet(l, pos, x) == [l EXCEPT ![pos + 1] = x]

\* The local variables of one call of enhance_query; previous is the call
\* whose result this call was given as its query, if any.
NoRun ==
  [previous |-> None, sparql_query |-> None, parts |-> None, vi |-> 0, ci |-> 0, var |-> << >>,
   var_has_been_renamed |-> FALSE, new_select_vars_list |-> << >>,
   new_triples_list |-> << >>, num_vars_added |-> 0,
   num_triples_added_per_config |-> << >>, raised |-> "none",
   result |-> None]

\* Lines 287-312: the state at the head of the loops.
StartRun(sparql_query, parts) ==
  IF parts = None
  THEN [NoRun EXCEPT !.sparql_query = sparql_query]
  ELSE [NoRun EXCEPT
          !.sparql_query = sparql_query,
          !.parts = parts,
          !.var = IF parts.select_vars_list = << >> THEN << >>
                  ELSE parts.select_vars_list[1],
          !.new_select_vars_list = parts.select_vars_list,
          !.num_triples_added_per_config =
            [c \in 1..Len(qlever_name_service.configs_for_add_triple) |-> 0]]

\* ---------------------------------------------------------------- state
\* The forms of an inbound path QueryProcessor.query tells apart, and the
\* inputs on which the code below it behaves differently.
Kinds ==
  {"yaml",            \* /?query=yaml..., a well-formed envelope
   "yaml_bad",        \* /?query=yaml..., parsing raises
   "sparql",          \* /?query=<SPARQL the parse regex matches>
   "sparql_nomatch",  \* /?query=<text the parse regex does not match>
   "sparql_empty",    \* /?query= with an empty value
   "admin"}           \* anything else, such as /?cmd=stats

SparqlKinds == {"sparql", "sparql_nomatch", "sparql_empty"}

Init ==
  /\ qlever_name_service \in
       {None} \cup {QleverNameService(s, c) :
                      s \in SubjectVarSuffixes,
                      c \in [1..NumConfigs -> ConfigArgs]}
  /\ pin_results_2 \in BOOLEAN
  /\ kind = [r \in Reqs |-> "none"]
  /\ pc = [r \in Reqs |-> "idle"]
  /\ arm = [r \in Reqs |-> [b \in BackendIds |-> NoCall]]
  /\ hcall = [r \in Reqs |-> NoCall]
  /\ result_queue = [r \in Reqs |-> << >>]
  /\ got = [r \in Reqs |-> << >>]
  /\ deposits = [r \in Reqs |-> [b \in BackendIds |-> 0]]
  /\ response = [r \in Reqs |-> Unassigned]
  /\ backend_id = [r \in Reqs |-> 0]
  /\ backend_1_error_data = [r \in Reqs |-> Unassigned]
  /\ label = [r \in Reqs |-> "none"]
  /\ enh = [r \in Reqs |-> NoRun]
  /\ sent = [r \in Reqs |-> << >>]
  /\ out = [r \in Reqs |-> << >>]
  /\ elapsed = [r \in Reqs |-> 0]

config_vars == << qlever_name_service, pin_results_2 >>
race_vars ==
  << arm, result_queue, got, deposits, backend_id, backend_1_error_data,
     label >>

\* Variant of CanReceive: the server of http.server.ThreadingHTTPServer,
\* with one thread per request.
CanReceiveThreaded(r) == pc[r] = "idle"

\* http.server.HTTPServer (line 929) serves one request at a time: do_GET
\* of request r starts only when the requests before it have ended.
CanReceive(r) ==
  /\ pc[r] = "idle"
  /\ \A q \in Reqs : q < r => pc[q] \in {"done", "crashed"}

\* -------------------------------------------------------------- dispatcher
\* Lines 725-740 and 777-786: a well-formed YAML envelope; both threads are
\* started, each sending its GET, before the first result_queue.get().
ReceiveYaml(r) ==
  /\ CanReceive(r)
  /\ LET c1 == query_start(1, Path(r, "query_1", 0, 0), timeout_seconds(1),
                           "absent")
         c2 == query_start(2, Path(r, "query_2", 0, 0), timeout_seconds(2),
                           "absent")
     IN  /\ arm' = [arm EXCEPT ![r] = [b \in BackendIds |->
                                         IF b = 1 THEN c1 ELSE c2]]
         /\ sent' = [sent EXCEPT ![r] = << SentQuery(c1), SentQuery(c2) >>]
  /\ kind' = [kind EXCEPT ![r] = "yaml"]
  /\ pc' = [pc EXCEPT ![r] = "get1"]
  /\ UNCHANGED << config_vars, hcall, result_queue, got, deposits, response,
                  backend_id, backend_1_error_data, label, enh, out, elapsed >>

\* Variant of YamlExcept: Response is built without the error_msg keyword.
YamlExceptNoMessage(path, exc) ==
  Response(None, path, ErrorMsg(0, "[no error message specified]", exc))

\* Lines 741-745: the except clause around the YAML branch.
YamlExcept(path, exc) ==
  Response(None, path, ErrorMsg(0, "Error parsing the YAML string", exc))

\* Lines 725-745: parsing the envelope raised (broken YAML, or one of the
\* keys yaml, query_1, query_2, footer is missing).
ReceiveBadYaml(r) ==
  /\ CanReceive(r)
  /\ kind' = [kind EXCEPT ![r] = "yaml_bad"]
  /\ response' = [response EXCEPT ![r] =
       YamlExcept(Path(r, "inbound", 0, 0), "yaml")]
  /\ pc' = [pc EXCEPT ![r] = "write"]
  /\ UNCHANGED << config_vars, race_vars, hcall, enh, sent, out, elapsed >>

\* Variant of UsesNameService: the test of the path's prefix is missing.
UsesNameServiceForAnyPath(k) == qlever_name_service # None

\* Line 752: the Name Service branch is taken.
UsesNameService(k) == k \in SparqlKinds /\ qlever_name_service # None

\* Lines 764-766: an ordinary query or a command, sent to backend 1 as is.
ReceivePlain(r, k) ==
  /\ CanReceive(r)
  /\ k \in SparqlKinds \cup {"admin"}
  /\ ~UsesNameService(k)
  /\ kind' = [kind EXCEPT ![r] = k]
  /\ LET c == query_start(1, Path(r, "inbound", 0, 0), TimeoutNormal, "absent")
     IN  /\ hcall' = [hcall EXCEPT ![r] = c]
         /\ sent' = [sent EXCEPT ![r] = << SentQuery(c) >>]
  /\ pc' = [pc EXCEPT ![r] = "single"]
  /\ UNCHANGED << config_vars, race_vars, response, enh, out, elapsed >>

\* Lines 755-759: parse_qsl drops a blank value, so for /?query= the list
\* is empty and parameters[0] raises IndexError, which nothing catches.
\* Otherwise enhance_query starts with the query of the first parameter.
ReceiveSparqlNS(r, k) ==
  /\ CanReceive(r)
  /\ k \in SparqlKinds \cup {"admin"}
  /\ UsesNameService(k)
  /\ kind' = [kind EXCEPT ![r] = k]
  /\ IF k = "sparql_empty"
     THEN /\ pc' = [pc EXCEPT ![r] = "crashed"]
          /\ UNCHANGED enh
     ELSE /\ pc' = [pc EXCEPT ![r] = "enhance"]
          /\ \E q \in (IF k = "sparql_nomatch" THEN NonMatchingQueries
                       ELSE MatchingQueries) :
               enh' = [enh EXCEPT ![r] = StartRun(q, get_query_parts(q))]
  /\ UNCHANGED << config_vars, race_vars, hcall, response, sent, out,
                  elapsed >>

\* ------------------------------------------------------- worker threads
\* Variant of QueueOf: the queue is kept in an attribute of the processor
\* that each call of query_backends_in_parallel replaces, so a thread puts
\* its pair on the queue of the latest call.
QueueOfLatestCall(r) ==
  CHOOSE q \in Reqs :
    kind[q] = "yaml" /\ \A p \in Reqs : kind[p] = "yaml" => p <= q

\* Lines 777-785: result_queue is a local of the call of
\* query_backends_in_parallel for request r, handed to its two threads as
\* an argument: a thread of request r puts its pair on the queue of r.
QueueOf(r) == r

\* Variant of ArmStep, with an unbuffered channel in place of the queue: the put
\* waits for a reader.
ArmStepRendezvous(r, b, c) ==
  /\ c.phase = "returned" => pc[r] \in {"get1", "get2a", "get2b"}
  /\ arm' = [arm EXCEPT ![r][b] = c]
  /\ result_queue' = [result_queue EXCEPT ![QueueOf(r)] =
       IF c.phase = "returned" THEN Append(@, << c.result, b >>) ELSE @]
  /\ deposits' = [deposits EXCEPT ![r][b] =
       IF c.phase = "returned" THEN @ + 1 ELSE @]
  /\ sent' = [sent EXCEPT ![r] =
       IF c.phase = "stats" THEN Append(@, SentCacheStats(c)) ELSE @]
  /\ UNCHANGED << config_vars, kind, pc, hcall, got, response, backend_id,
                  backend_1_error_data, label, enh, out, elapsed >>

\* Backend.query_and_write_to_queue, lines 597-598, for the thread of
\* backend b whose call has become c: once query has returned, the pair
\* (response, self.backend_id) is put on the unbounded queue; if query
\* raised, the thread would end without a put.
ArmStep(r, b, c) ==
  /\ arm' = [arm EXCEPT ![r][b] = c]
  /\ result_queue' = [result_queue EXCEPT ![QueueOf(r)] =
       IF c.phase = "returned" THEN Append(@, << c.result, b >>) ELSE @]
  /\ deposits' = [deposits EXCEPT ![r][b] =
       IF c.phase = "returned" THEN @ + 1 ELSE @]
  /\ sent' = [sent EXCEPT ![r] =
       IF c.phase = "stats" THEN Append(@, SentCacheStats(c)) ELSE @]
  /\ UNCHANGED << config_vars, kind, pc, hcall, got, response, backend_id,
                  backend_1_error_data, label, enh, out, elapsed >>

ArmMainDone(r, b, o) ==
  /\ arm[r][b].phase = "main"
  /\ ArmStep(r, b, MainDone(arm[r][b], o))

ArmStatsDone(r, b, s) ==
  /\ arm[r][b].phase = "stats"
  /\ ArmStep(r, b, StatsDone(arm[r][b], s))

\* ------------------------------------------- query_backends_in_parallel
\* Variant of AfterFirstGet: no elif branch, backend 2 first returns at once.
AfterFirstGetNoWaitForBackend1(resp, id) ==
  IF id = 1 /\ resp.http_response = None THEN "backend_1_error"
  ELSE "return"

\* Variant of AfterFirstGet: no if branch, an error of backend 1 returns at
\* once.
AfterFirstGetReturnsOnError(resp, id) ==
  IF id = 2 THEN "backend_2_first" ELSE "return"

\* Variant of AfterFirstGet: else in place of elif, a second get also after
\* an Ok of backend 1.
AfterFirstGetAlwaysWaits(resp, id) ==
  IF id = 1 /\ resp.http_response = None THEN "backend_1_error"
  ELSE "backend_2_first"

\* Lines 794 and 797: the branch taken after the first result_queue.get().
AfterFirstGet(resp, id) ==
  IF id = 1 /\ resp.http_response = None THEN "backend_1_error"
  ELSE IF id = 2 THEN "backend_2_first"
  ELSE "return"

\* Variant of PreferBackend1: the second pair always replaces the first.
PreferBackend1Always(first, second) == second

\* Variant of PreferBackend1: the first pair is always kept.
PreferBackend1Never(first, second) == first

\* Variant of PreferBackend1: the first Ok wins, the pair of backend 1
\* replaces that of backend 2 only if backend 2 has failed.
PreferFirstOk(first, second) ==
  IF first[1].http_response # None THEN first ELSE second

\* Lines 801-802: backend 2 came first; the pair of backend 1 replaces it
\* only if it holds an http_response.
PreferBackend1(first, second) ==
  IF second[1].http_response # None THEN second ELSE first

\* Variant of CaseLabel: the case is told by the backend id alone.
CaseLabelByIdOnly(resp, id) ==
  IF id = 1 THEN "BEST" ELSE IF id = 2 THEN "FALLBACK" ELSE "WORST"

\* Lines 808-817: the log line.
CaseLabel(resp, id) ==
  IF resp.http_response # None /\ id = 1 THEN "BEST"
  ELSE IF resp.http_response # None /\ id = 2 THEN "FALLBACK"
  ELSE "WORST"

\* Lines 808-820 and 740-745: the FALLBACK line reads backend_1_error_data;
\* were it unassigned, the UnboundLocalError would be caught by the except
\* clause around the YAML branch.
Return(r, resp, id, b1_error) ==
  LET unbound == CaseLabel(resp, id) = "FALLBACK" /\ b1_error = Unassigned
  IN  /\ response' = [response EXCEPT ![r] =
             IF unbound
             THEN YamlExcept(Path(r, "inbound", 0, 0), "unbound")
             ELSE resp]
      /\ backend_id' = [backend_id EXCEPT ![r] = id]
      /\ label' = [label EXCEPT ![r] =
             IF unbound THEN "none" ELSE CaseLabel(resp, id)]
      /\ pc' = [pc EXCEPT ![r] = "write"]

\* Line 793 and the branch after it.
Get1(r) ==
  /\ pc[r] = "get1"
  /\ result_queue[r] # << >>
  /\ LET pair == Head(result_queue[r])
         branch == AfterFirstGet(pair[1], pair[2])
     IN  /\ got' = [got EXCEPT ![r] = Append(@, pair)]
         /\ result_queue' = [result_queue EXCEPT ![r] = Tail(@)]
         /\ IF branch = "return"
            THEN /\ Return(r, pair[1], pair[2], backend_1_error_data[r])
                 /\ UNCHANGED backend_1_error_data
            ELSE /\ response' = [response EXCEPT ![r] = pair[1]]
                 /\ backend_id' = [backend_id EXCEPT ![r] = pair[2]]
                 /\ backend_1_error_data' =
                      [backend_1_error_data EXCEPT ![r] =
                         IF branch = "backend_1_error"
                         THEN pair[1].error_data ELSE @]
                 /\ pc' = [pc EXCEPT ![r] =
                         IF branch = "backend_1_error" THEN "get2a"
                         ELSE "get2b"]
                 /\ UNCHANGED label
  /\ UNCHANGED << config_vars, kind, arm, hcall, deposits, enh, sent, out,
                  elapsed >>

\* Lines 795-796: backend 1 came first with an error.
Get2AfterBackend1Error(r) ==
  /\ pc[r] = "get2a"
  /\ result_queue[r] # << >>
  /\ LET pair == Head(result_queue[r])
     IN  /\ got' = [got EXCEPT ![r] = Append(@, pair)]
         /\ result_queue' = [result_queue EXCEPT ![r] = Tail(@)]
         /\ Return(r, pair[1], pair[2], backend_1_error_data[r])
  /\ UNCHANGED << config_vars, kind, arm, hcall, deposits,
                  backend_1_error_data, enh, sent, out, elapsed >>

\* Lines 798-802: backend 2 came first.
Get2AfterBackend2(r) ==
  /\ pc[r] = "get2b"
  /\ result_queue[r] # << >>
  /\ LET pair == Head(result_queue[r])
         chosen == PreferBackend1(<< response[r], backend_id[r] >>, pair)
     IN  /\ got' = [got EXCEPT ![r] = Append(@, pair)]
         /\ result_queue' = [result_queue EXCEPT ![r] = Tail(@)]
         /\ backend_1_error_data' =
              [backend_1_error_data EXCEPT ![r] = pair[1].error_data]
         /\ Return(r, chosen[1], chosen[2], pair[1].error_data)
  /\ UNCHANGED << config_vars, kind, arm, hcall, deposits, enh, sent, out,
                  elapsed >>

\* -------------------------------------------------------- enhance_query
\* The config and the variable of the current iteration.
Config(e) == qlever_name_service.configs_for_add_triple[e.ci + 1]
OriginalVar(e) == e.parts.select_vars_list[e.vi + 1]

\* Variant of Advance: the loops are nested the other way round, the
\* variables inside the configs.
AdvanceConfigMajor(e) ==
  IF e.vi + 1 < Len(e.parts.select_vars_list)
  THEN [e EXCEPT !.vi = @ + 1,
                 !.var = e.parts.select_vars_list[e.vi + 2],
                 !.var_has_been_renamed = FALSE]
  ELSE IF e.ci + 1 < Len(qlever_name_service.configs_for_add_triple)
       THEN [e EXCEPT !.vi = 0, !.ci = @ + 1,
                      !.var = e.parts.select_vars_list[1],
                      !.var_has_been_renamed = FALSE]
       ELSE [e EXCEPT !.vi = @ + 1, !.var = << >>]

\* The loops of lines 312 and 321: the next (var_index, config_index);
\* lines 316-317 at the head of the outer loop.
Advance(e) ==
  IF e.ci + 1 < Len(qlever_name_service.configs_for_add_triple)
  THEN [e EXCEPT !.ci = @ + 1]
  ELSE [e EXCEPT
          !.vi = @ + 1,
          !.ci = 0,
          !.var = IF e.vi + 2 <= Len(e.parts.select_vars_list)
                  THEN e.parts.select_vars_list[e.vi + 2] ELSE << >>,
          !.var_has_been_renamed = FALSE]

\* The loops have an iteration left.
InLoop(e) == e.parts # None /\ e.vi < Len(e.parts.select_vars_list)

\* Lines 325-331: the config applies to the variable at this position.
PositionApplies(e) ==
  LET p == Config(e).select_variable_position
  IN  IF p = None THEN TRUE
      ELSE e.vi = (IF p.v >= 0 THEN p.v
                   ELSE Len(e.parts.select_vars_list) + p.v)

\* Lines 350-352: the body already has a name triple for the variable.
NameTripleExists(e) ==
  SearchNameTriple(e.var, Config(e).predicate_exists_regex,
                   e.parts.body_string)

\* Lines 325-352: the config does not apply to this position, or the body
\* already has such a triple: continue without a probe.
EnhanceSkip(r) ==
  /\ pc[r] = "enhance"
  /\ InLoop(enh[r])
  /\ IF PositionApplies(enh[r])
     THEN ~RegexRaises(enh[r].var) /\ NameTripleExists(enh[r])
     ELSE TRUE
  /\ enh' = [enh EXCEPT ![r] = Advance(@)]
  /\ UNCHANGED << config_vars, race_vars, kind, pc, hcall, response, sent,
                  out, elapsed >>

\* Lines 350-351: re.search raises, and nothing on the way to do_GET
\* catches it.
EnhanceRegexError(r) ==
  /\ pc[r] = "enhance"
  /\ InLoop(enh[r])
  /\ PositionApplies(enh[r])
  /\ RegexRaises(enh[r].var)
  /\ enh' = [enh EXCEPT ![r].raised = "re.error"]
  /\ pc' = [pc EXCEPT ![r] = "crashed"]
  /\ UNCHANGED << config_vars, race_vars, kind, hcall, response, sent, out,
                  elapsed >>

\* Lines 361-383: the probe, sent to the Name Service's backend (backend_2,
\* line 1046) with its own deadline and pin_results_override=False.
EnhanceProbe(r) ==
  /\ pc[r] = "enhance"
  /\ InLoop(enh[r])
  /\ PositionApplies(enh[r])
  /\ ~RegexRaises(enh[r].var)
  /\ ~NameTripleExists(enh[r])
  /\ LET c == query_start(2, Path(r, "probe", enh[r].vi, enh[r].ci),
                          timeout_seconds(2), "False")
     IN  /\ hcall' = [hcall EXCEPT ![r] = c]
         /\ sent' = [sent EXCEPT ![r] = Append(@, SentQuery(c))]
  /\ pc' = [pc EXCEPT ![r] = "probe"]
  /\ UNCHANGED << config_vars, race_vars, kind, response, enh, out, elapsed >>

\* Lines 288-290 and 470-477: what enhance_query returns.
Enhanced(e) ==
  IF e.parts = None THEN e.sparql_query
  ELSE make_sparql_query_from_parts(
         e.parts.prefixes_list, e.new_select_vars_list, e.new_triples_list,
         e.parts.select_vars_string, e.parts.body_string,
         e.parts.group_by_string, e.parts.footer_string)

\* Lines 470-477 and 760-766: enhance_query returns (the original query when
\* the regex did not match); the re-encoded path goes to backend 1.
EnhanceFinish(r) ==
  /\ pc[r] = "enhance"
  /\ ~InLoop(enh[r])
  /\ LET q == IF enh[r].parts # None THEN "enhanced" ELSE "reencoded"
         c == query_start(1, Path(r, q, 0, 0), TimeoutNormal, "absent")
     IN  /\ hcall' = [hcall EXCEPT ![r] = c]
         /\ sent' = [sent EXCEPT ![r] = Append(@, SentQuery(c))]
  /\ enh' = [enh EXCEPT ![r].result = Enhanced(enh[r])]
  /\ pc' = [pc EXCEPT ![r] = "single"]
  /\ UNCHANGED << config_vars, race_vars, kind, response, out, elapsed >>

\* Lines 384-401: the try around the probe swallows an exception; the
\* triple is added iff the response is Ok and "resultsize" is positive.
add_new_triple(c) ==
  /\ c.phase = "returned"
  /\ c.result.http_response # None
  /\ c.result.http_response.data.resultsize # NoResultSize
  /\ c.result.http_response.data.resultsize > 0

\* Variant of SubjectName: the suffix is appended to the current name.
SubjectNameSuffixedAgain(e) ==
  IF qlever_name_service.subject_var_suffix # ""
  THEN Cat(e.var, qlever_name_service.subject_var_suffix)
  ELSE e.var

\* Lines 410-412: whether this addition renames the variable, and the name
\* of the subject of the new triple.
Renames(e) ==
  qlever_name_service.subject_var_suffix # "" /\ ~e.var_has_been_renamed

SubjectName(e) ==
  IF Renames(e)
  THEN Cat(OriginalVar(e), qlever_name_service.subject_var_suffix)
  ELSE e.var

\* Variant of NewVar: the suffix is appended to the current name.
NewVarOfCurrentName(e) == Cat(e.var, Config(e).suffix)

\* Line 426: the name of the new variable.
NewVar(e) == Cat(OriginalVar(e), Config(e).suffix)

\* Variant of Position: one count for all configs.
PositionByTotalCount(e) ==
  IF e.new_triples_list = << >> THEN Config(e).position
  ELSE Config(e).position_repeated

\* Lines 439-442: the position argument, by the number of triples already
\* added for this config.
Position(e) ==
  IF e.num_triples_added_per_config[e.ci + 1] = 0 THEN Config(e).position
  ELSE Config(e).position_repeated

\* Lines 404-466: the probe succeeded. The variable is renamed (once), the
\* assert of line 429 compares the two names, the triple is appended and
\* the new variable is placed in the outer SELECT.
AddTriple(e) ==
  LET config == Config(e)
      original_var == OriginalVar(e)
      renames == Renames(e)
      var == SubjectName(e)
      slot == e.vi + e.num_vars_added
      renamed_list == IF renames THEN ListSet(e.new_select_vars_list, slot, var)
                      ELSE e.new_select_vars_list
      renamed_parts ==
        IF renames
        THEN [e.parts EXCEPT
                !.body_string = RenameIn(@, original_var, var),
                !.group_by_string = RenameIn(@, original_var, var),
                !.select_vars_string = RenameNames(@, original_var, var)]
        ELSE e.parts
      new_var == NewVar(e)
      new_triple == [subject |-> var, predicate |-> config.predicate,
                     object |-> new_var, optional |-> config.optional]
      position == Position(e)
      added == IF position > 0 THEN e.num_vars_added + 1
               ELSE e.num_vars_added
      new_list ==
        IF position = 0 THEN ListSet(renamed_list, slot, new_var)
        ELSE IF position > 0
             THEN ListInsert(renamed_list, e.vi + added + position - 1,
                             new_var)
             ELSE ListInsert(renamed_list, Len(renamed_list) + position + 1,
                             new_var)
  IN  IF var = new_var
      THEN [e EXCEPT !.raised = "AssertionError"]
      ELSE [e EXCEPT
              !.var = var,
              !.var_has_been_renamed = @ \/ renames,
              !.parts = renamed_parts,
              !.new_triples_list = Append(@, new_triple),
              !.new_select_vars_list = new_list,
              !.num_vars_added = added,
              !.num_triples_added_per_config[e.ci + 1] = @ + 1]

\* Lines 390-466 for the probe that has ended as c.
AfterProbe(e, c) ==
  IF ~add_new_triple(c) THEN Advance(e)
  ELSE IF AddTriple(e).raised # "none" THEN AddTriple(e)
  ELSE Advance(AddTriple(e))

\* ------------------------------------------- the handler's own calls
\* Backend.query called by do_GET's thread has ended as c. From line 766 the
\* response goes to do_GET (an exception would leave do_GET); from line 380
\* the enhancer goes on, and a failing assert leaves do_GET with no
\* response written.
AfterCall(r, c) ==
  /\ hcall' = [hcall EXCEPT ![r] = NoCall]
  /\ IF pc[r] = "single"
     THEN /\ pc' = [pc EXCEPT ![r] =
                IF c.phase = "raised" THEN "crashed" ELSE "write"]
          /\ response' = [response EXCEPT ![r] =
                IF c.phase = "raised" THEN @ ELSE c.result]
          /\ UNCHANGED enh
     ELSE /\ enh' = [enh EXCEPT ![r] = AfterProbe(@, c)]
          /\ pc' = [pc EXCEPT ![r] =
                IF AfterProbe(enh[r], c).raised # "none" THEN "crashed"
                ELSE "enhance"]
          /\ UNCHANGED response

HcallStep(r, c) ==
  /\ IF c.phase = "stats"
     THEN /\ hcall' = [hcall EXCEPT ![r] = c]
          /\ UNCHANGED << pc, response, enh >>
     ELSE AfterCall(r, c)
  /\ sent' = [sent EXCEPT ![r] =
       IF c.phase = "stats" THEN Append(@, SentCacheStats(c)) ELSE @]
  /\ UNCHANGED << config_vars, race_vars, kind, out, elapsed >>

HcallMainDone(r, o) ==
  /\ pc[r] \in {"single", "probe"}
  /\ hcall[r].phase = "main"
  /\ o \in (IF pc[r] = "probe" THEN ProbeOutcomes ELSE MainOutcomes)
  /\ HcallStep(r, MainDone(hcall[r], o))

HcallStatsDone(r, s) ==
  /\ pc[r] \in {"single", "probe"}
  /\ hcall[r].phase = "stats"
  /\ HcallStep(r, StatsDone(hcall[r], s))

\* ------------------------------------------------------------ front server
\* Variant of Written: the error branch sends no Access-Control-Allow-Origin
\* and the Ok branch copies every upstream header.
WrittenWithoutCors(resp) ==
  IF resp.http_response # None
  THEN [status |-> 200, headers |-> resp.http_response.headers,
        body |-> resp.http_response.data]
  ELSE [status |-> 200,
        headers |-> {<< "Content-Type", "application/json" >>},
        body |-> resp.error_data]

\* do_GET, lines 890-908: what is written for the dispatcher's response.
Written(resp) ==
  IF resp.http_response # None
  THEN [status |-> 200,
        headers |-> {h \in resp.http_response.headers : h[1] \in Headers},
        body |-> resp.http_response.data]
  ELSE [status |-> 200,
        headers |-> {<< "Content-Type", "application/json" >>,
                     << "Access-Control-Allow-Origin", "*" >>},
        body |-> resp.error_data]

Write(r) ==
  /\ pc[r] = "write"
  /\ out' = [out EXCEPT ![r] = Append(@, Written(response[r]))]
  /\ pc' = [pc EXCEPT ![r] = "done"]
  /\ UNCHANGED << config_vars, race_vars, kind, hcall, response, enh, sent,
                  elapsed >>

\* --------------------------------------------------------------- time
Calls == {arm[r][b] : r \in Reqs, b \in BackendIds} \cup {hcall[r] : r \in Reqs}

\* do_GET has a step to take that waits for nothing.
Urgent(r) ==
  \/ pc[r] \in {"write", "enhance"}
  \/ pc[r] \in {"get1", "get2a", "get2b"} /\ result_queue[r] # << >>

TickClock(c) == IF InFlight(c) THEN [c EXCEPT !.clock = @ + 1] ELSE c

\* One tick of the clock: every GET in flight is one tick older; none may
\* pass its deadline (it answers or times out first), and do_GET's own
\* steps take no time.
Tick ==
  /\ \E c \in Calls : InFlight(c)
  /\ \A c \in Calls : InFlight(c) => c.clock < Deadline(c)
  /\ \A r \in Reqs : ~Urgent(r)
  /\ arm' = [r \in Reqs |-> [b \in BackendIds |-> TickClock(arm[r][b])]]
  /\ hcall' = [r \in Reqs |-> TickClock(hcall[r])]
  /\ elapsed' = [r \in Reqs |->
       IF pc[r] \in {"idle", "done", "crashed"} THEN elapsed[r]
       ELSE elapsed[r] + 1]
  /\ UNCHANGED << config_vars, kind, pc, result_queue, got, deposits,
                  response, backend_id, backend_1_error_data, label, enh,
                  sent, out >>

\* ------------------------------------------------------- specifications
ArmNext(r, b) ==
  \/ \E o \in MainOutcomes : ArmMainDone(r, b, o)
  \/ \E s \in StatsOutcomes : ArmStatsDone(r, b, s)

\* A racing request: the dispatcher and the two worker threads.
RaceStep(r) ==
  \/ ReceiveYaml(r)
  \/ \E b \in BackendIds : ArmNext(r, b)
  \/ Get1(r)
  \/ Get2AfterBackend1Error(r)
  \/ Get2AfterBackend2(r)
  \/ Write(r)

Step(r) ==
  \/ RaceStep(r)
  \/ ReceiveBadYaml(r)
  \/ \E k \in Kinds : ReceivePlain(r, k)
  \/ \E k \in Kinds : ReceiveSparqlNS(r, k)
  \/ EnhanceSkip(r)
  \/ EnhanceRegexError(r)
  \/ EnhanceProbe(r)
  \/ EnhanceFinish(r)
  \/ \E o \in Outcomes : HcallMainDone(r, o)
  \/ \E s \in StatsOutcomes : HcallStatsDone(r, s)

\* One inbound request: every interleaving of do_GET's thread and the two
\* worker threads.
Next == Step(1)

Spec == Init /\ [][Next]_vars

\* A racing request with the clock.
TimedNext == Tick \/ RaceStep(1)

TimedSpec == Init /\ [][TimedNext]_vars

\* enhance_query by itself, from its call at line 757 to its return, with
\* more --add-triple arguments and longer projections than Spec has.
EnhConfigArgs ==
  {ConfigForAddTriple(LabelIri, "_name", 1),
   ConfigForAddTriple(LabelIri, "", 0),
   ConfigForAddTriple(ImageIri, "_image", 0 - 1),
   ConfigForAddTriple(ImageIri, "_pic", 2),
   ConfigForAddTriple(ImageIri, "_id", 0 - 2),
   ConfigForAddTriple(ImageIri, "_far", 0 - 4)}

EnhQueries ==
  {[match |-> TRUE, select |-> SubSeq(VarNames, 1, n),
    body |-> BodyOf([i \in 1..n |-> "plain"], n),
    footer |-> << Kw("GROUP"), Kw("BY") >>
               \o [i \in 1..n |-> VarTok(VarNames[i])]
               \o << Kw("LIMIT"), Kw("10") >>] : n \in 1..MaxSelectVars}
  \cup {[match |-> TRUE,
         select |-> << << "(?a" >>, << "AS" >>, << "?b)" >> >>,
         body |-> BodyBlock(<< "?a" >>, "plain"), footer |-> << >>]}

\* enhance_query is called with one of the queries, the Name Service being
\* one of services.
EnhStart(services, queries) ==
  /\ qlever_name_service \in services
  /\ pin_results_2 = FALSE
  /\ kind = [r \in Reqs |-> IF r = 1 THEN "sparql" ELSE "none"]
  /\ pc = [r \in Reqs |-> IF r = 1 THEN "enhance" ELSE "idle"]
  /\ arm = [r \in Reqs |-> [b \in BackendIds |-> NoCall]]
  /\ hcall = [r \in Reqs |-> NoCall]
  /\ result_queue = [r \in Reqs |-> << >>]
  /\ got = [r \in Reqs |-> << >>]
  /\ deposits = [r \in Reqs |-> [b \in BackendIds |-> 0]]
  /\ response = [r \in Reqs |-> Unassigned]
  /\ backend_id = [r \in Reqs |-> 0]
  /\ backend_1_error_data = [r \in Reqs |-> Unassigned]
  /\ label = [r \in Reqs |-> "none"]
  /\ \E q \in queries :
       enh = [r \in Reqs |->
                IF r = 1 THEN StartRun(q, get_query_parts(q)) ELSE NoRun]
  /\ sent = [r \in Reqs |-> << >>]
  /\ out = [r \in Reqs |-> << >>]
  /\ elapsed = [r \in Reqs |-> 0]

EnhInit ==
  EnhStart({QleverNameService(s, c) :
              s \in SubjectVarSuffixes, c \in [1..NumConfigs -> EnhConfigArgs]},
           EnhQueries)

\* Lines 378-401: the probe has been answered.
ProbeAnswered(r, o) == pc[r] = "probe" /\ HcallMainDone(r, o)

EnhNext ==
  \/ EnhanceSkip(1)
  \/ EnhanceRegexError(1)
  \/ EnhanceProbe(1)
  \/ \E o \in ProbeOutcomes : ProbeAnswered(1, o)
  \/ EnhanceFinish(1)

EnhSpec == EnhInit /\ [][EnhNext]_vars

\* enhance_query applied to its own result, with one --add-triple argument.
AgainConfigArgs ==
  EnhConfigArgs \cup {ConfigForAddTriple(SubclassIri, "_super", 1)}

AgainInit ==
  EnhStart({QleverNameService(s, << c >>) :
              s \in SubjectVarSuffixes, c \in AgainConfigArgs},
           EnhQueries)

\* enhance_query has returned and is called again, with the query it
\* returned.
EnhanceAgain(r) ==
  /\ pc[r] = "single"
  /\ enh[r].result # None
  /\ enh[r].previous = None
  /\ enh' = [enh EXCEPT ![r] =
       [StartRun(enh[r].result, get_query_parts(enh[r].result))
          EXCEPT !.previous = enh[r]]]
  /\ pc' = [pc EXCEPT ![r] = "enhance"]
  /\ hcall' = [hcall EXCEPT ![r] = NoCall]
  /\ UNCHANGED << config_vars, race_vars, kind, response, sent, out,
                  elapsed >>

AgainNext == EnhNext \/ EnhanceAgain(1)

AgainSpec == AgainInit /\ [][AgainNext]_vars

\* The server loop of line 930 with two requests waiting, each a YAML
\* envelope or a command. A GET is answered with a result or runs into its
\* timeout.
ServerOutcomes ==
  {o \in MainOutcomes :
     \/ o.exc = "socket.timeout"
     \/ o.json = "ok" /\ o.headers = Headers}

ServerInit == Init /\ qlever_name_service = None /\ ~pin_results_2

ServerStep(r) ==
  \/ ReceiveYaml(r)
  \/ ReceivePlain(r, "admin")
  \/ \E b \in BackendIds : \E o \in ServerOutcomes : ArmMainDone(r, b, o)
  \/ \E b \in BackendIds : ArmStatsDone(r, b, "ok")
  \/ Get1(r)
  \/ Get2AfterBackend1Error(r)
  \/ Get2AfterBackend2(r)
  \/ \E o \in ServerOutcomes : HcallMainDone(r, o)
  \/ HcallStatsDone(r, "ok")
  \/ Write(r)

ServerNext == ServerStep(1) \/ ServerStep(2)

ServerSpec == ServerInit /\ [][ServerNext]_vars

\* Each worker thread is scheduled, and each of its GETs ends (it answers
\* or its timeout fires): a thread that can take a step takes it.
FairSpec ==
  Spec /\ \A b \in BackendIds : WF_vars(ArmNext(1, b))

\* get_query_parts by itself, on queries that differ in the words after
\* the closing brace.
TailWords ==
  {Kw("GROUP"), Kw("BY"), VarTok(VarNames[1]), VarTok(VarNames[2]),
   Kw("LIMIT")}

Tails == UNION {[1..n -> TailWords] : n \in 0..MaxTailLen}

TailQueries ==
  {[match |-> TRUE, select |-> SubSeq(VarNames, 1, 1),
    body |-> BodyBlock(VarNames[1], "plain"), footer |-> tail] :
     tail \in Tails}
  \cup NonMatchingQueries

PartsInit ==
  /\ qlever_name_service =
       QleverNameService("", << ConfigForAddTriple(LabelIri, "_name", 1) >>)
  /\ pin_results_2 = FALSE
  /\ kind = [r \in Reqs |-> IF r = 1 THEN "sparql" ELSE "none"]
  /\ pc = [r \in Reqs |-> IF r = 1 THEN "parse" ELSE "idle"]
  /\ arm = [r \in Reqs |-> [b \in BackendIds |-> NoCall]]
  /\ hcall = [r \in Reqs |-> NoCall]
  /\ result_queue = [r \in Reqs |-> << >>]
  /\ got = [r \in Reqs |-> << >>]
  /\ deposits = [r \in Reqs |-> [b \in BackendIds |-> 0]]
  /\ response = [r \in Reqs |-> Unassigned]
  /\ backend_id = [r \in Reqs |-> 0]
  /\ backend_1_error_data = [r \in Reqs |-> Unassigned]
  /\ label = [r \in Reqs |-> "none"]
  /\ \E q \in TailQueries :
       enh = [r \in Reqs |->
                IF r = 1 THEN [NoRun EXCEPT !.sparql_query = q] ELSE NoRun]
  /\ sent = [r \in Reqs |-> << >>]
  /\ out = [r \in Reqs |-> << >>]
  /\ elapsed = [r \in Reqs |-> 0]

\* Line 287: enhance_query calls get_query_parts on its query.
GetQueryParts(r) ==
  /\ pc[r] = "parse"
  /\ enh' = [enh EXCEPT ![r] =
       StartRun(@.sparql_query, get_query_parts(@.sparql_query))]
  /\ pc' = [pc EXCEPT ![r] = "enhance"]
  /\ UNCHANGED << config_vars, race_vars, kind, hcall, response, sent, out,
                  elapsed >>

PartsNext == GetQueryParts(1)

PartsSpec == PartsInit /\ [][PartsNext]_vars

\* ------------------------------------------------------------ properties
Racing(r) == kind[r] = "yaml"

\* query_backends_in_parallel has returned.
Returned(r) == Racing(r) /\ pc[r] \in {"write", "done"}

\* The thread of backend b has put its pair on the queue.
Deposited(r, b) == arm[r][b].phase = "returned"

\* The response it put there.
Dep(r, b) == arm[r][b].result

\* The i-th pair read by the dispatcher: its response and its backend id.
GotResp(r, i) == got[r][i][1]
GotId(r, i) == got[r][i][2]


\* C1: in a racing request, whenever the response deposited by backend 1
\* is Ok, the dispatcher returns backend 1's response, whatever backend 2
\* deposited and whichever pair arrived first.
C1_Backend1OkWins ==
  \A r \in Reqs :
    (Returned(r) /\ Deposited(r, 1) /\ IsOk(Dep(r, 1)))
      => (response[r] = Dep(r, 1) /\ backend_id[r] = 1)

\* Backend 2's Ok arrived first, backend 1's Ok second, and backend 1's
\* response was returned.
C1_Witness ==
  /\ Returned(1)
  /\ Len(got[1]) = 2
  /\ GotId(1, 1) = 2 /\ IsOk(GotResp(1, 1))
  /\ GotId(1, 2) = 1 /\ IsOk(GotResp(1, 2))
  /\ response[1] = Dep(1, 1)

\* C2: in a racing request, if one of the backends has deposited an Ok
\* response, the response the dispatcher returned is Ok.
C2_OkNeverLostToError ==
  \A r \in Reqs :
    (Returned(r) /\ \E b \in BackendIds : Deposited(r, b) /\ IsOk(Dep(r, b)))
      => IsOk(response[r])

\* Backend 2's Ok arrived first, backend 1 then failed, and the Ok of
\* backend 2 was returned.
C2_Witness ==
  /\ Returned(1)
  /\ Len(got[1]) = 2
  /\ GotId(1, 1) = 2 /\ IsOk(GotResp(1, 1))
  /\ GotId(1, 2) = 1 /\ ~IsOk(GotResp(1, 2))
  /\ IsOk(response[1]) /\ backend_id[1] = 2

\* C3 as stated: backend 2's pair arrives first and is an error; the
\* dispatcher waits for backend 1's pair, and if that is an error too, the
\* response returned is backend 1's error.
C3_ReturnsBackend1Error ==
  \A r \in Reqs :
    (Returned(r) /\ GotId(r, 1) = 2 /\ ~IsOk(GotResp(r, 1)))
      => /\ Len(got[r]) = 2
         /\ GotId(r, 2) = 1
         /\ response[r] = GotResp(r, 2)

\* C3 as amended: backend 2's pair arrives first and is an error; the
\* dispatcher waits for backend 1's pair and returns it if it is Ok; if
\* backend 1 errors too, the response returned is backend 2's error.
C3_KeepsBackend2Error ==
  \A r \in Reqs :
    (Returned(r) /\ GotId(r, 1) = 2 /\ ~IsOk(GotResp(r, 1)))
      => /\ Len(got[r]) = 2
         /\ GotId(r, 2) = 1
         /\ IsOk(GotResp(r, 2))
              => (response[r] = GotResp(r, 2) /\ backend_id[r] = 1)
         /\ ~IsOk(GotResp(r, 2))
              => (response[r] = GotResp(r, 1) /\ backend_id[r] = 2)

\* Both backends failed, backend 2 first, and backend 2's error was
\* returned.
C3_Witness ==
  /\ Returned(1)
  /\ Len(got[1]) = 2
  /\ GotId(1, 1) = 2 /\ ~IsOk(GotResp(1, 1))
  /\ GotId(1, 2) = 1 /\ ~IsOk(GotResp(1, 2))
  /\ response[1] = Dep(1, 2)

\* C4: backend 1's pair arrives first and is an error (ProxyError or
\* BackendError): the dispatcher reads backend 2's pair and returns that
\* response as it is, Ok or not.
C4_Backend2AsIs ==
  \A r \in Reqs :
    (Returned(r) /\ GotId(r, 1) = 1 /\ ~IsOk(GotResp(r, 1)))
      => /\ Len(got[r]) = 2
         /\ GotId(r, 2) = 2
         /\ response[r] = GotResp(r, 2)
         /\ response[r] = Dep(r, 2)
         /\ backend_id[r] = 2

\* Backend 1 answered first with a BackendError, backend 2 then failed
\* with a ProxyError, which was returned.
C4_Witness ==
  /\ Returned(1)
  /\ GotId(1, 1) = 1 /\ IsBackendError(GotResp(1, 1))
  /\ Len(got[1]) = 2
  /\ IsProxyError(response[1]) /\ backend_id[1] = 2

\* C5: a racing request reads one or two pairs from its queue, never none
\* and never three; it reads exactly one iff the first pair is backend 1's
\* and Ok.
C5_OneOrTwoReads ==
  \A r \in Reqs :
    /\ Len(got[r]) <= 2
    /\ Returned(r)
         => /\ Len(got[r]) \in {1, 2}
            /\ Len(got[r]) = 1 <=> (GotId(r, 1) = 1 /\ IsOk(GotResp(r, 1)))

\* The dispatcher has returned after one read while backend 2's GET is
\* still in flight.
C5_Witness ==
  /\ Returned(1)
  /\ Len(got[1]) = 1
  /\ InFlight(arm[1][2])


\* C6: in a racing request each of the two worker threads, once started,
\* eventually puts exactly one pair on the request's queue, whatever the
\* outcome of its GETs and of the other thread, also after the dispatcher
\* has returned; no thread ends without its put and none puts twice.
C6_BothArmsDeposit ==
  /\ [](\A r \in Reqs, b \in BackendIds :
          deposits[r][b] <= 1 /\ arm[r][b].phase # "raised")
  /\ \A b \in BackendIds :
       (arm[1][b].phase = "main") ~> (deposits[1][b] = 1 /\ Deposited(1, b))

\* The dispatcher returned after one read and the response was written;
\* backend 2's thread has put its pair all the same, and nobody reads it.
C6_Witness ==
  /\ pc[1] = "done"
  /\ Len(got[1]) = 1
  /\ deposits[1][1] = 1 /\ deposits[1][2] = 1
  /\ Len(result_queue[1]) = 1

\* C7 as stated: a racing request returns no later than
\* max(timeout-1, timeout-2) after it started.
C7_WithinLargerDeadline ==
  \A r \in Reqs : Returned(r) => elapsed[r] <= Max(Timeout1, Timeout2)

\* C7 as amended: a racing request returns no later than
\* 2 * max(timeout-1, timeout-2) after it started; a thread makes up to two
\* GETs in sequence (the query, then cachestats), each within the deadline
\* of its backend.
C7_WithinTwiceLargerDeadline ==
  \A r \in Reqs : Returned(r) => elapsed[r] <= 2 * Max(Timeout1, Timeout2)

\* A racing request that returned exactly 2 * max(timeout-1, timeout-2)
\* ticks after it started.
C7_Witness ==
  /\ Returned(1)
  /\ elapsed[1] = 2 * Max(Timeout1, Timeout2)

\* C8: for every inbound GET whose handling has ended, exactly one response
\* was written, its status is 200 and it carries Access-Control-Allow-Origin.
C8_OneResponse200WithCors ==
  \A r \in Reqs :
    pc[r] \in {"done", "crashed"}
      => /\ Len(out[r]) = 1
         /\ out[r][1].status = 200
         /\ \E h \in out[r][1].headers : h[1] = "Access-Control-Allow-Origin"

\* C9: when the dispatcher's response is a failure envelope, do_GET writes
\* status 200, Content-Type application/json, Access-Control-Allow-Origin *
\* and the envelope's error_data as the body; for a BackendError that body
\* is the body an upstream GET of this request answered with.
C9_ErrorEnvelopeWritten ==
  \A r \in Reqs :
    (pc[r] = "done" /\ ~IsOk(response[r]))
      => /\ out[r] = << [status |-> 200,
                         headers |-> {<< "Content-Type", "application/json" >>,
                                      << "Access-Control-Allow-Origin", "*" >>},
                         body |-> response[r].error_data] >>
         /\ IsBackendError(response[r])
              => \E i \in 1..Len(sent[r]), o \in Outcomes :
                   /\ sent[r][i].cmd = "query"
                   /\ o.json = "error"
                   /\ out[r][1].body =
                        UpstreamData(sent[r][i].backend, sent[r][i].path, o)

\* A BackendError was chosen and its upstream body was written.
C9_Witness ==
  /\ pc[1] = "done"
  /\ IsBackendError(response[1])
  /\ out[1][1].body.json = "error"

\* The envelope Backend.query hands back on a failure: no http_response,
\* and the synthesised JSON with status ERROR as error_data.
ReturnsProxyError(c) ==
  /\ c.phase = "returned"
  /\ c.result.http_response = None
  /\ c.result.error_data.tag = "proxy"
  /\ c.result.error_data.status = "ERROR"

\* C10: Backend.query never raises to its caller; whenever a GET it waits
\* for ends in a transport error (socket timeout, read timeout, max-retry,
\* any other exception) or in a status other than 200, it returns a
\* ProxyError envelope.
C10_QueryNeverRaises ==
  \A c \in Calls :
    /\ c.phase # "raised"
    /\ c.phase = "main"
         => \A o \in Outcomes :
              MainRaises(o) # "none" => ReturnsProxyError(MainDone(c, o))
    /\ c.phase = "stats" => ReturnsProxyError(StatsDone(c, "fail"))

\* A worker thread's query got a status other than 200 and returned a
\* ProxyError.
C10_Witness ==
  \E b \in BackendIds :
    /\ ReturnsProxyError(arm[1][b])
    /\ arm[1][b].result.error_data.exception.exc = "AssertionError"

\* The upstream GETs of request r that are query calls and no probes.
MainQueries(r) ==
  {i \in 1..Len(sent[r]) :
     sent[r][i].cmd = "query" /\ sent[r][i].path.q # "probe"}

\* The upstream GETs of request r that went to backend b.
SentTo(r, b) == {i \in 1..Len(sent[r]) : sent[r][i].backend = b}

\* enhance_query has been entered for request r.
EnhancerInvoked(r) ==
  \/ enh[r] # NoRun
  \/ pc[r] \in {"enhance", "probe"}
  \/ \E i \in 1..Len(sent[r]) : sent[r][i].path.q \in {"probe", "enhanced",
                                                      "reencoded"}

\* C11: whenever the GET of a query call has answered 200 with a body whose
\* status is ERROR, the call returns a BackendError envelope: no
\* http_response, and as error data that upstream body; and in a racing
\* request a BackendError deposited by backend 1 is a failure of backend 1,
\* so the response returned is backend 2's.
C11_ErrorBodyIsBackendError ==
  /\ \A c \in Calls :
       (c.phase = "stats" /\ c.http.data.json = "error")
         => \A s \in StatsOutcomes :
              /\ StatsDone(c, s).phase = "returned"
              /\ IsBackendError(StatsDone(c, s).result)
              /\ StatsDone(c, s).result.error_data = c.http.data
  /\ \A r \in Reqs :
       (Returned(r) /\ Deposited(r, 1) /\ IsBackendError(Dep(r, 1)))
         => (response[r] = Dep(r, 2) /\ backend_id[r] = 2)

\* C12: a failure of the cachestats GET that follows a successful main GET
\* is swallowed: the call returns the envelope of the main response, and no
\* call ever returns a ProxyError that stems from show_cache_stats.
C12_StatsFailureSwallowed ==
  \A c \in Calls :
    /\ c.phase = "stats"
         => /\ StatsDone(c, "fail").phase = "returned"
            /\ StatsDone(c, "fail").result = Response(c.http, c.path, None)
    /\ (c.phase = "returned" /\ IsProxyError(c.result))
         => c.result.error_data.exception.exc # "NameError"

\* C13: for an inbound path that does not begin with /?query=, the only
\* query call is the first GET: to backend 1, with the inbound path and no
\* pinning parameters; every other GET is backend 1's cachestats, backend 2
\* gets nothing, and enhance_query is not entered.
C13_AdminToBackend1Only ==
  \A r \in Reqs :
    kind[r] = "admin"
      => /\ MainQueries(r) = {1}
         /\ sent[r][1].backend = 1
         /\ sent[r][1].path = Path(r, "inbound", 0, 0)
         /\ ~sent[r][1].pin
         /\ SentTo(r, 2) = {}
         /\ ~EnhancerInvoked(r)
         /\ arm[r] = [b \in BackendIds |-> NoCall]

\* /?cmd=stats was answered with the Name Service active: one query and its
\* cachestats, both to backend 1.
C13_Witness ==
  /\ kind[1] = "admin"
  /\ qlever_name_service # None
  /\ pc[1] = "done"
  /\ Len(sent[1]) = 2
  /\ IsOk(response[1])

\* C14: once the handling of a plain SPARQL request has ended, exactly one
\* query call that is no probe was issued: to backend 1, with the deadline
\* --timeout; and with the Name Service inactive its path is the inbound
\* path.
C14_OneMainQueryToBackend1 ==
  \A r \in Reqs :
    (kind[r] \in SparqlKinds /\ pc[r] \in {"write", "done", "crashed"})
      => /\ Cardinality(MainQueries(r)) = 1
         /\ \A i \in MainQueries(r) :
              /\ sent[r][i].backend = 1
              /\ sent[r][i].timeout = TimeoutNormal
              /\ qlever_name_service = None
                   => sent[r][i].path = Path(r, "inbound", 0, 0)

\* C15: for a well-formed YAML envelope, the query calls are exactly two:
\* query_1 with footer to backend 1 with deadline timeout-1, query_2 with
\* footer to backend 2 with deadline timeout-2; both threads are started
\* before the dispatcher reads a result, and enhance_query is not entered.
C15_YamlSendsBothQueries ==
  \A r \in Reqs :
    kind[r] = "yaml"
      => /\ MainQueries(r) = {1, 2}
         /\ sent[r][1] = [cmd |-> "query", backend |-> 1,
                          path |-> Path(r, "query_1", 0, 0),
                          pin |-> FALSE, timeout |-> Timeout1]
         /\ sent[r][2] = [cmd |-> "query", backend |-> 2,
                          path |-> Path(r, "query_2", 0, 0),
                          pin |-> pin_results_2, timeout |-> Timeout2]
         /\ \A i \in 1..Len(sent[r]) :
              sent[r][i].path = Path(r, IF sent[r][i].backend = 1
                                        THEN "query_1" ELSE "query_2", 0, 0)
         /\ \A b \in BackendIds : arm[r][b].phase # "idle"
         /\ ~EnhancerInvoked(r)
         /\ hcall[r] = NoCall

\* Both threads have run to their end and the response was written.
C15_Witness ==
  /\ kind[1] = "yaml"
  /\ pc[1] = "done"
  /\ \A b \in BackendIds : Deposited(1, b)
  /\ Len(sent[1]) = 4

\* C16: when the YAML envelope cannot be parsed, the dispatcher returns a
\* ProxyError whose message is the one of the YAML except clause, "Error
\* parsing the YAML string", and no GET goes to either backend.
C16_BadYamlIsProxyError ==
  \A r \in Reqs :
    kind[r] = "yaml_bad"
      => /\ pc[r] \in {"write", "done"}
         /\ IsProxyError(response[r])
         /\ response[r].error_data.exception.text =
              "Error parsing the YAML string"
         /\ sent[r] = << >>
         /\ arm[r] = [b \in BackendIds |-> NoCall]
         /\ hcall[r] = NoCall

\* The ProxyError of a broken envelope was written to the caller.
C16_Witness ==
  /\ kind[1] = "yaml_bad"
  /\ pc[1] = "done"
  /\ out[1][1].body.exception.text = "Error parsing the YAML string"

\* C20: a query GET carries &pinresult=true&pinsubtrees=true iff its
\* backend is configured to pin and the call is not a probe; no cachestats
\* GET belongs to a probe.
C20_PinIffConfiguredAndNoProbe ==
  \A r \in Reqs : \A i \in 1..Len(sent[r]) :
    /\ sent[r][i].cmd = "query"
         => (sent[r][i].pin <=>
               (pin_results(sent[r][i].backend)
                  /\ sent[r][i].path.q # "probe"))
    /\ sent[r][i].cmd = "cachestats" => sent[r][i].path.q # "probe"

\* Backend 2 is configured to pin, a probe was sent to it without the
\* pinning parameters, it answered, and the next GET was no cachestats.
C20_Witness ==
  /\ pin_results_2
  /\ pc[1] = "done"
  /\ \E i \in 1..Len(sent[1]) - 1 :
       /\ sent[1][i].path.q = "probe"
       /\ sent[1][i].backend = 2
       /\ ~sent[1][i].pin
       /\ sent[1][i + 1].cmd = "query"

\* enhance_query has returned for request r.
EnhancerReturned(r) ==
  enh[r].sparql_query # None /\ pc[r] \in {"single", "write", "done"}

\* The probes among the GETs of request r.
Probes(r) == {i \in 1..Len(sent[r]) : sent[r][i].path.q = "probe"}

\* C17: enhance_query never raises, whatever the query, the suffixes of the
\* configuration and the outcomes of the probes, and once it has returned
\* its result is a query.
C17_EnhanceNeverRaises ==
  \A r \in Reqs :
    /\ enh[r].raised = "none"
    /\ EnhancerReturned(r) => enh[r].result # None

\* C18: when the parse regex does not match the query, enhance_query
\* returns the query it was given, raises nothing and sends no probe.
C18_NoMatchReturnsOriginal ==
  \A r \in Reqs :
    (enh[r].sparql_query # None /\ ~enh[r].sparql_query.match)
      => /\ Probes(r) = {}
         /\ enh[r].raised = "none"
         /\ pc[r] # "probe"
         /\ EnhancerReturned(r) => enh[r].result = enh[r].sparql_query

\* A query the regex does not match was returned as it was, sent to
\* backend 1, and answered.
C18_Witness ==
  /\ kind[1] = "sparql_nomatch"
  /\ pc[1] = "done"
  /\ enh[1].result = enh[1].sparql_query
  /\ sent[1][1].path.q = "reencoded"

\* The triples a query body states: a word is a subject at the start and
\* after a dot, and a predicate after a subject and after a semicolon (a
\* predicate-object list shares its subject).
IsSubjectAt(body, i) == i = 1 \/ body[i - 1] = Dot

IsPredicateAt(body, j) ==
  /\ j > 1
  /\ body[j].t = "pred"
  /\ IsSubjectAt(body, j - 1) \/ body[j - 1] = Semicolon

SubjectOf(body, j) ==
  body[CHOOSE i \in 1..j :
         /\ IsSubjectAt(body, i)
         /\ \A k \in (i + 1)..j : ~IsSubjectAt(body, k)]

BodyHasTriple(body, v, config) ==
  \E j \in 1..Len(body) :
    /\ IsPredicateAt(body, j)
    /\ SubjectOf(body, j) = VarTok(v)
    /\ RegexMatches(config.predicate_exists_regex, body[j].p)

\* C19: no probe is sent for a variable v and a config C when the body of
\* the query holds a triple with subject v whose predicate matches C's
\* predicate-exists regex.
C19_NoProbeWhenTripleExists ==
  \A r \in Reqs : \A i \in Probes(r) :
    ~BodyHasTriple(enh[r].sparql_query.body,
                   enh[r].sparql_query.select[sent[r][i].path.vi + 1],
                   qlever_name_service.configs_for_add_triple[
                     sent[r][i].path.ci + 1])

\* The probe answered Ok with a body that holds "resultsize": N, N > 0.
ProbeSucceeds(o) ==
  /\ o.exc = "none"
  /\ o.status = 200
  /\ o.json # "error"
  /\ o.resultsize # NoResultSize
  /\ o.resultsize > 0

\* The run e2 has one triple more than the run e: the triple of the
\* variable and the config of e's current iteration.
TripleAddedFor(e, e2) ==
  /\ Len(e2.new_triples_list) = Len(e.new_triples_list) + 1
  /\ SubSeq(e2.new_triples_list, 1, Len(e.new_triples_list))
       = e.new_triples_list
  /\ LET t == e2.new_triples_list[Len(e2.new_triples_list)]
     IN  /\ t.predicate = Config(e).predicate
         /\ t.object = Cat(OriginalVar(e), Config(e).suffix)

\* C21: whatever a probe is answered, a triple is added for its variable
\* and config iff the answer is an Ok envelope whose body holds
\* "resultsize": N with N > 0; after any other answer nothing is added, the
\* loops go on with the next config or variable, and nothing is raised.
C21_TripleAddedIffProbeSucceeds ==
  \A r \in Reqs :
    pc[r] = "probe"
      => \A o \in ProbeOutcomes :
           LET e2 == AfterProbe(enh[r], MainDone(hcall[r], o))
           IN  IF ProbeSucceeds(o)
               THEN /\ TripleAddedFor(enh[r], e2)
                    /\ e2.raised = "none"
               ELSE /\ e2 = Advance(enh[r])
                    /\ e2.raised = "none"

\* The projected variables for which the run e has added a triple.
VarsWithTriple(e) ==
  {v \in {e.parts.select_vars_list[i] :
            i \in 1..Len(e.parts.select_vars_list)} :
     \E i \in 1..Len(e.new_triples_list) :
       e.new_triples_list[i].object[1] = v[1]}

\* A name of the query as it came in, as the run e must write it.
NameInRun(e, name) ==
  IF qlever_name_service.subject_var_suffix # "" /\ name \in VarsWithTriple(e)
  THEN Cat(name, qlever_name_service.subject_var_suffix)
  ELSE name

WordInRun(e, word) ==
  IF word.t = "var" THEN VarTok(NameInRun(e, word.name)) ELSE word

\* C22: the subject of every added triple is the projected variable with
\* the subject suffix appended exactly once, however many triples were
\* added for it; and the body, GROUP BY and the inner SELECT are those of
\* the query as it came in with exactly the variables that got a triple
\* renamed in this way.
C22_RenamedAtMostOnce ==
  \A r \in Reqs :
    (enh[r].parts # None /\ qlever_name_service # None)
      => LET e == enh[r]
             parts == get_query_parts(e.sparql_query)
         IN  /\ \A i \in 1..Len(e.new_triples_list) :
                  e.new_triples_list[i].subject =
                    Cat(<< e.new_triples_list[i].object[1] >>,
                        qlever_name_service.subject_var_suffix)
             /\ e.parts.body_string =
                  [j \in 1..Len(parts.body_string) |->
                     WordInRun(e, parts.body_string[j])]
             /\ e.parts.group_by_string =
                  [j \in 1..Len(parts.group_by_string) |->
                     WordInRun(e, parts.group_by_string[j])]
             /\ e.parts.select_vars_string =
                  [j \in 1..Len(parts.select_vars_string) |->
                     NameInRun(e, parts.select_vars_string[j])]

\* enhance_query has returned with two triples added for ?x, both with the
\* subject ?x_id, and GROUP BY names ?x_id.
C22_Witness ==
  /\ pc[1] = "single"
  /\ qlever_name_service # None
  /\ qlever_name_service.subject_var_suffix = "_id"
  /\ Len(enh[1].new_triples_list) >= 2
  /\ enh[1].new_triples_list[1].subject = << "?x", "_id" >>
  /\ enh[1].new_triples_list[2].subject = << "?x", "_id" >>
  /\ enh[1].result.group_by[3] = VarTok(<< "?x", "_id" >>)

\* The run waits for the answer of a probe, and a positive answer adds the
\* triple without raising.
CanAdd(r) ==
  /\ pc[r] = "probe"
  /\ enh[r].parts # None
  /\ AddTriple(enh[r]).raised = "none"

\* C23: a new variable placed with a positive position k sits, right after
\* its insertion, k slots to the right of the slot that holds its subject
\* variable (or at the end, when the outer SELECT is shorter than that).
C23_PositiveIsKRightOfSubject ==
  \A r \in Reqs :
    (CanAdd(r) /\ Position(enh[r]) > 0)
      => LET list == AddTriple(enh[r]).new_select_vars_list
             k == Position(enh[r])
         IN  \E i \in 1..Len(list) :
               /\ list[i] = SubjectName(enh[r])
               /\ list[IF i + k <= Len(list) THEN i + k ELSE Len(list)]
                    = NewVar(enh[r])

\* C26: when a successful probe renames the variable or places the new
\* variable with position 0, the slot var_index + num_vars_added of the
\* outer SELECT holds the variable (under its current name) at that moment,
\* and with position 0 and no rename no other slot changes.
C26_WrittenSlotHoldsSubject ==
  \A r \in Reqs :
    (CanAdd(r) /\ (Position(enh[r]) = 0 \/ Renames(enh[r])))
      => LET e == enh[r]
             slot == e.vi + e.num_vars_added
         IN  /\ slot + 1 <= Len(e.new_select_vars_list)
             /\ e.new_select_vars_list[slot + 1] = e.var
             /\ (Position(e) = 0 /\ ~Renames(e))
                  => AddTriple(e).new_select_vars_list =
                       [e.new_select_vars_list EXCEPT ![slot + 1] = NewVar(e)]

\* C27: a new variable placed with a negative position -k is, right after
\* its insertion, at index len - k + 1 of the outer SELECT (counted from 0,
\* len being the length before the insertion; the front when that is
\* negative), so that -1 makes it the last; such an insertion and a
\* replacement with position 0 leave num_vars_added as it was, and an
\* insertion with a positive position adds one to it.
C27_NegativeCountsFromEnd ==
  \A r \in Reqs :
    CanAdd(r)
      => LET e == enh[r]
             e2 == AddTriple(e)
             len == Len(e.new_select_vars_list)
             index == Max(len + Position(e) + 1, 0)
         IN  /\ Position(e) < 0
                  => /\ Len(e2.new_select_vars_list) = len + 1
                     /\ e2.new_select_vars_list[index + 1] = NewVar(e)
                     /\ e2.num_vars_added = e.num_vars_added
             /\ Position(e) > 0 => e2.num_vars_added = e.num_vars_added + 1
             /\ Position(e) = 0 => e2.num_vars_added = e.num_vars_added

\* The config of the current iteration is the only one of the list with
\* its predicate and suffix.
ConfigIsUnique(e) ==
  \A i \in 1..Len(qlever_name_service.configs_for_add_triple) :
    LET c == qlever_name_service.configs_for_add_triple[i]
    IN  (c.predicate = Config(e).predicate /\ c.suffix = Config(e).suffix)
          => i = e.ci + 1

\* The number of triples the run has added for a config, read from the
\* triples themselves.
TriplesOfConfig(e, config) ==
  Cardinality({i \in 1..Len(e.new_triples_list) :
                 /\ e.new_triples_list[i].predicate = config.predicate
                 /\ e.new_triples_list[i].object =
                      Cat(<< e.new_triples_list[i].object[1] >>,
                          config.suffix)})

\* C28: the first triple added for a config in a run is placed by the
\* config's position and every later one by its position_repeated,
\* whatever was added for other configs and whichever probes failed: with
\* 0 the new variable replaces a slot and the outer SELECT keeps its
\* length, otherwise the outer SELECT grows by one, and only a positive
\* value adds to num_vars_added.
C28_FirstThenRepeatedPosition ==
  \A r \in Reqs :
    (CanAdd(r) /\ ConfigIsUnique(enh[r]))
      => LET e == enh[r]
             e2 == AddTriple(e)
             len == Len(e.new_select_vars_list)
             p == IF TriplesOfConfig(e, Config(e)) = 0
                  THEN Config(e).position
                  ELSE Config(e).position_repeated
         IN  /\ p = 0
                  => /\ Len(e2.new_select_vars_list) = len
                     /\ e2.num_vars_added = e.num_vars_added
                     /\ e2.new_select_vars_list[e.vi + e.num_vars_added + 1]
                          = NewVar(e)
             /\ p > 0
                  => /\ Len(e2.new_select_vars_list) = len + 1
                     /\ e2.num_vars_added = e.num_vars_added + 1
                     /\ LET pos == e.vi + e2.num_vars_added + p - 1
                        IN  e2.new_select_vars_list[
                              IF pos > len THEN len + 1 ELSE pos + 1]
                              = NewVar(e)
             /\ p < 0
                  => /\ Len(e2.new_select_vars_list) = len + 1
                     /\ e2.num_vars_added = e.num_vars_added

\* The label config (position 1, position_repeated 0) has added ?x_name
\* next to ?x and has replaced ?y by ?y_name.
C28_Witness ==
  /\ pc[1] = "single"
  /\ qlever_name_service # None
  /\ qlever_name_service.subject_var_suffix = ""
  /\ enh[1].result.select =
       << << "?x" >>, << "?x", "_name" >>, << "?y", "_name" >> >>
  /\ Len(enh[1].new_triples_list) = 2

\* C29: when a probe succeeds for a config whose suffix differs from the
\* subject suffix, the new variable, the original name with the config's
\* suffix, differs from the subject's name and the triple is added; when
\* the two suffixes are equal the assert fails and enhance_query raises
\* instead of returning, so no triple of such a config is ever added.
C29_AssertFailsIffSuffixesEqual ==
  \A r \in Reqs :
    /\ (pc[r] = "probe" /\ enh[r].parts # None)
         => LET e == enh[r]
                e2 == AddTriple(e)
                clash == Config(e).suffix
                           = qlever_name_service.subject_var_suffix
            IN  /\ ~clash
                     => /\ e2.raised = "none"
                        /\ TripleAddedFor(e, e2)
                        /\ LET t == e2.new_triples_list[
                                      Len(e2.new_triples_list)]
                           IN  /\ t.subject # t.object
                               /\ t.object =
                                    Cat(OriginalVar(e), Config(e).suffix)
                /\ clash
                     => /\ e2.raised = "AssertionError"
                        /\ \A o \in ProbeOutcomes :
                             ProbeSucceeds(o)
                               => AfterProbe(e, MainDone(hcall[r], o)).raised
                                    = "AssertionError"
    /\ enh[r].raised = "AssertionError"
         => (pc[r] = "crashed" /\ enh[r].result = None)
    /\ \A i \in 1..Len(enh[r].new_triples_list) :
         enh[r].new_triples_list[i].subject # enh[r].new_triples_list[i].object

\* With both suffixes "_id", a triple of another config was added for ?x
\* and then the probe of the config with suffix "_id" succeeded: the assert
\* failed and do_GET was left by the exception.
C29_Witness ==
  /\ pc[1] = "crashed"
  /\ enh[1].raised = "AssertionError"
  /\ qlever_name_service.subject_var_suffix = "_id"
  /\ Len(enh[1].new_triples_list) = 1
  /\ enh[1].new_triples_list[1].subject = << "?x", "_id" >>

\* The envelopes a state holds: the dispatcher's response, the results of
\* the calls, and the pairs on the queue and read from it.
Envelopes ==
  {response[r] : r \in {q \in Reqs : response[q] # Unassigned}}
  \cup {c.result : c \in {d \in Calls : d.phase = "returned"}}
  \cup UNION {{result_queue[r][i][1] : i \in 1..Len(result_queue[r])} :
                r \in Reqs}
  \cup UNION {{got[r][i][1] : i \in 1..Len(got[r])} : r \in Reqs}

\* Exactly one of http_response and error_data is set, and the envelope is
\* Ok, ProxyError or BackendError accordingly.
ExactlyOneSet(resp) ==
  /\ (resp.http_response = None) # (resp.error_data = None)
  /\ IsOk(resp) <=> resp.error_data = None
  /\ (IsProxyError(resp) \/ IsBackendError(resp))
       <=> resp.http_response = None

\* C30: every envelope has exactly one of http_response and error_data
\* set: the envelopes a request holds, and the envelope Backend.query
\* builds for whatever a GET in flight is answered, a 200 body that is no
\* JSON included.
C30_ExactlyOneOfResponseAndError ==
  /\ \A resp \in Envelopes : ExactlyOneSet(resp)
  /\ \A c \in Calls :
       /\ c.phase = "main"
            => \A o \in Outcomes :
                 MainDone(c, o).phase = "returned"
                   => ExactlyOneSet(MainDone(c, o).result)
       /\ c.phase = "stats"
            => \A st \in StatsOutcomes :
                 ExactlyOneSet(StatsDone(c, st).result)

\* A 200 answer whose body is no JSON was made an Ok envelope and written
\* to the caller.
C30_Witness ==
  /\ pc[1] = "done"
  /\ IsOk(response[1])
  /\ response[1].http_response.data.json = "unparsable"
  /\ response[1].error_data = None

\* do_GET of request r is running: it waits for an upstream call or for
\* the queue, or has its response to write.
Serving(r) == pc[r] \notin {"idle", "done", "crashed"}

\* C25 as stated: while do_GET of the first request waits for its upstream
\* calls, do_GET of the second request can begin.
C25_SecondStartsWhileFirstWaits ==
  (Serving(1) /\ pc[2] = "idle") => CanReceive(2)

\* C25: inbound requests are served one at a time: do_GET of a request has
\* not begun, and none of its GETs was sent, as long as do_GET of an
\* earlier request has not ended; only the worker threads of an earlier
\* racing request may still be waiting for their answers.
C25_OneRequestAtATime ==
  \A r1, r2 \in Reqs :
    (r1 < r2 /\ ~(pc[r1] \in {"done", "crashed"}))
      => /\ pc[r2] = "idle"
         /\ sent[r2] = << >>
         /\ hcall[r2] = NoCall
         /\ arm[r2] = [b \in BackendIds |-> NoCall]

\* The first request, a race, was answered from backend 1 while the GET to
\* backend 2 is still in flight, and do_GET of the second request, which
\* had to wait until then, is now running.
C25_Witness ==
  /\ kind[1] = "yaml"
  /\ pc[1] = "done"
  /\ InFlight(arm[1][2])
  /\ Serving(2)

\* The run e has added a triple for the projected variable v and the
\* config.
HasTripleFor(e, v, config) ==
  \E i \in 1..Len(e.new_triples_list) :
    /\ e.new_triples_list[i].predicate = config.predicate
    /\ e.new_triples_list[i].object = Cat(v, config.suffix)

\* The probes a run of request r has sent, as pairs of var_index and
\* config_index: those of the first call come before the GET of the
\* enhanced query, those of the second call after it.
ProbesOfCall(r, second) ==
  {<< sent[r][i].path.vi, sent[r][i].path.ci >> :
     i \in {j \in Probes(r) :
              second <=> \E k \in 1..(j - 1) : sent[r][k].path.q = "enhanced"}}

\* A name without the subject suffix a rename has given it.
BaseName(name) ==
  IF /\ qlever_name_service.subject_var_suffix # ""
     /\ Len(name) > 1
     /\ name[Len(name)] = qlever_name_service.subject_var_suffix
  THEN SubSeq(name, 1, Len(name) - 1)
  ELSE name

\* The backend of the probes is deterministic: a probe of the second call
\* about a variable and a config the first call has probed (the variable
\* under its first or its renamed name) was answered as it was then.
DeterministicProbes(r) ==
  \A p1 \in ProbesOfCall(r, FALSE) : \A p2 \in ProbesOfCall(r, TRUE) :
    LET first == enh[r].previous
        v1 == first.sparql_query.select[p1[1] + 1]
        v2 == enh[r].sparql_query.select[p2[1] + 1]
        c1 == qlever_name_service.configs_for_add_triple[p1[2] + 1]
        c2 == qlever_name_service.configs_for_add_triple[p2[2] + 1]
    IN  (c1 = c2 /\ BaseName(v2) = v1)
          => (HasTripleFor(enh[r], v2, c2) <=> HasTripleFor(first, v1, c1))

\* C24: when enhance_query is applied to a query it has returned, with a
\* deterministic backend, it adds no triple and no variable to the outer
\* SELECT.
C24_EnhancerIdempotent ==
  \A r \in Reqs :
    (/\ enh[r].previous # None
     /\ pc[r] = "single"
     /\ DeterministicProbes(r))
      => /\ enh[r].new_triples_list = << >>
         /\ enh[r].result.select = enh[r].previous.result.select

\* The pairs the threads of request r have put on a queue.
OwnPairs(r) == {<< Dep(r, b), b >> : b \in {x \in BackendIds : Deposited(r, x)}}

\* C31: requests are isolated: every pair the dispatcher of a racing
\* request reads, and every pair waiting on its queue, was put there by
\* one of that request's own two threads, also when a thread of an earlier
\* request deposits after the later request has started racing; the
\* response the dispatcher returns is one of the two its own threads
\* produced.
C31_RequestsIsolated ==
  \A r \in Reqs :
    /\ \A i \in 1..Len(got[r]) : got[r][i] \in OwnPairs(r)
    /\ \A i \in 1..Len(result_queue[r]) : result_queue[r][i] \in OwnPairs(r)
    /\ Returned(r) => << response[r], backend_id[r] >> \in OwnPairs(r)

\* The first request was answered from backend 1 alone and its thread of
\* backend 2 deposited afterwards: that pair lies unread on the queue of
\* the first request, while the dispatcher of the second request has read
\* two pairs and returned.
C31_Witness ==
  /\ Returned(1) /\ Len(got[1]) = 1
  /\ Deposited(1, 2)
  /\ result_queue[1] = << << Dep(1, 2), 2 >> >>
  /\ Returned(2) /\ Len(got[2]) = 2
  /\ result_queue[2] = << >>

\* C32: a racing request that has returned has logged exactly one of BEST
\* CASE, FALLBACK and WORST CASE: BEST iff the returned response is Ok and
\* from backend 1, FALLBACK iff it is Ok and from backend 2, WORST iff it
\* is a failure; and whenever FALLBACK is logged, backend_1_error_data,
\* which that line reads, has been assigned on the path taken.
C32_ExactlyOneCaseLogged ==
  \A r \in Reqs :
    Returned(r)
      => /\ label[r] \in {"BEST", "FALLBACK", "WORST"}
         /\ label[r] = "BEST" <=> (IsOk(response[r]) /\ backend_id[r] = 1)
         /\ label[r] = "FALLBACK" <=> (IsOk(response[r]) /\ backend_id[r] = 2)
         /\ label[r] = "WORST" <=> ~IsOk(response[r])
         /\ label[r] = "FALLBACK" => backend_1_error_data[r] # Unassigned

\* Backend 2 answered first with a result, backend 1 then failed: the
\* FALLBACK line was logged, with the error of backend 1 assigned at line
\* 800.
C32_Witness ==
  /\ Returned(1)
  /\ Len(got[1]) = 2
  /\ GotId(1, 1) = 2
  /\ label[1] = "FALLBACK"
  /\ backend_1_error_data[1] = GotResp(1, 2).error_data
  /\ backend_1_error_data[1] # None

\* C33: get_query_parts splits the words after the closing brace: if there
\* are more than two of them and the first two are GROUP BY, the GROUP BY
\* part is GROUP BY followed by the longest run of words that start with
\* "?", and the footer is the rest; otherwise the GROUP BY part is empty
\* and the footer is the whole tail. In every case the words of the GROUP
\* BY part followed by those of the footer are the words of the tail.
C33_GroupBySplit ==
  \A r \in Reqs :
    (pc[r] = "enhance" /\ enh[r].parts # None)
      => LET tail == enh[r].sparql_query.footer
             group_by == enh[r].parts.group_by_string
             footer == enh[r].parts.footer_string
         IN  /\ group_by \o footer = tail
             /\ IF /\ Len(tail) > 2
                   /\ tail[1] = Kw("GROUP")
                   /\ tail[2] = Kw("BY")
                THEN /\ Len(group_by) >= 2
                     /\ \A i \in 3..Len(group_by) : group_by[i].t = "var"
                     /\ footer # << >> => footer[1].t # "var"
                ELSE /\ group_by = << >>
                     /\ footer = tail

\* The tail GROUP BY ?x LIMIT was split into GROUP BY ?x and LIMIT.
C33_Witness ==
  /\ pc[1] = "enhance" /\ enh[1].parts # None
  /\ enh[1].sparql_query.footer =
       << Kw("GROUP"), Kw("BY"), VarTok(VarNames[1]), Kw("LIMIT") >>
  /\ enh[1].parts.group_by_string =
       << Kw("GROUP"), Kw("BY"), VarTok(VarNames[1]) >>
  /\ enh[1].parts.footer_string = << Kw("LIMIT") >>

\* A response without the request it belongs to: what two requests with
\* the same envelope can have in common.
ForgetRequest(resp) ==
  IF resp.http_response # None
  THEN [resp EXCEPT !.http_response.data.path.req = 0]
  ELSE IF resp.error_data.tag = "proxy"
       THEN [resp EXCEPT !.error_data.query.req = 0]
       ELSE [resp EXCEPT !.error_data.path.req = 0]

\* Both threads of both requests have deposited, and each backend gave
\* the two requests the same outcome.
SameOutcomes(r1, r2) ==
  \A b \in BackendIds :
    /\ Deposited(r1, b) /\ Deposited(r2, b)
    /\ ForgetRequest(Dep(r1, b)) = ForgetRequest(Dep(r2, b))

\* The pair the outcomes of the two backends determine: that of backend 1
\* if its response is Ok, that of backend 2 otherwise.
ChosenByOutcomes(r) ==
  IF IsOk(Dep(r, 1)) THEN << Dep(r, 1), 1 >> ELSE << Dep(r, 2), 2 >>

\* C34: the response query_backends_in_parallel returns is a function of
\* the outcomes of the two backends and not of the order in which their
\* pairs arrive: it is the response of backend 1 if that is Ok and the
\* response of backend 2 otherwise, and two racing requests whose backends
\* gave the same outcomes return the same response from the same backend,
\* whatever the two arrival orders were.
C34_ArrivalOrderIrrelevant ==
  /\ \A r \in Reqs :
       Returned(r)
         => /\ Deposited(r, 1)
            /\ ~IsOk(Dep(r, 1)) => Deposited(r, 2)
            /\ << response[r], backend_id[r] >> = ChosenByOutcomes(r)
  /\ \A r1, r2 \in Reqs :
       (Returned(r1) /\ Returned(r2) /\ SameOutcomes(r1, r2))
         => /\ backend_id[r1] = backend_id[r2]
            /\ ForgetRequest(response[r1]) = ForgetRequest(response[r2])

\* Two requests whose backends gave the same outcomes, a failure of
\* backend 1 and a result of backend 2: in the first the pair of backend 1
\* arrived first, in the second that of backend 2, and both returned the
\* result of backend 2.
C34_Witness ==
  /\ Returned(1) /\ Returned(2)
  /\ SameOutcomes(1, 2)
  /\ Len(got[1]) = 2 /\ Len(got[2]) = 2
  /\ GotId(1, 1) = 1 /\ GotId(2, 1) = 2
  /\ ~IsOk(Dep(1, 1)) /\ IsOk(Dep(1, 2))
  /\ backend_id[1] = 2 /\ backend_id[2] = 2
  /\ ForgetRequest(response[1]) = ForgetRequest(response[2])

\* The GETs of request r that are queries to backend 1.
QueriesToBackend1(r) ==
  {i \in 1..Len(sent[r]) : sent[r][i].cmd = "query" /\ sent[r][i].backend = 1}

\* C35: in a plain SPARQL request with the Name Service active the probes
\* are sent one at a time (a GET is in flight only while it is the last
\* one sent, and the loop goes on only when none is in flight), in the
\* order of the variables and, for one variable, of the configs, each to
\* the backend of the Name Service (backend 2) with the deadline of that
\* backend; there are at most as many probes as pairs of a projected
\* variable and a config; and a query to backend 1 is sent at most once,
\* after every probe, when no probe is in flight.
C35_ProbesInOrderBeforeMainQuery ==
  \A r \in Reqs :
    (kind[r] \in SparqlKinds /\ qlever_name_service # None)
      => /\ InFlight(hcall[r])
              => /\ pc[r] \in {"probe", "single"}
                 /\ sent[r] # << >>
                 /\ sent[r][Len(sent[r])].path = hcall[r].path
                 /\ pc[r] = "probe" <=> hcall[r].path.q = "probe"
         /\ pc[r] = "enhance" => ~InFlight(hcall[r])
         /\ \A i \in Probes(r) :
              /\ sent[r][i].cmd = "query"
              /\ sent[r][i].backend = 2
              /\ sent[r][i].timeout = timeout_seconds(2)
         /\ \A i, j \in Probes(r) :
              i < j
                => \/ sent[r][i].path.vi < sent[r][j].path.vi
                   \/ /\ sent[r][i].path.vi = sent[r][j].path.vi
                      /\ sent[r][i].path.ci < sent[r][j].path.ci
         /\ Cardinality(Probes(r))
              <= (IF enh[r].parts = None THEN 0
                  ELSE Len(enh[r].parts.select_vars_list)
                         * Len(qlever_name_service.configs_for_add_triple))
         /\ Cardinality(QueriesToBackend1(r)) <= 1
         /\ \A i \in QueriesToBackend1(r) :
              /\ \A j \in Probes(r) : j < i
              /\ pc[r] \notin {"probe", "enhance"}

\* Every pair of a projected variable and a config was probed, with as
\* many variables and configs as the bounds allow: the probes were sent
\* variable by variable and, for one variable, config by config, and after
\* the last was answered the enhanced query was sent to backend 1.
C35_Witness ==
  /\ kind[1] = "sparql" /\ qlever_name_service # None
  /\ Len(enh[1].parts.select_vars_list) = MaxSelectVars
  /\ Len(sent[1]) = MaxSelectVars * NumConfigs + 1
  /\ Probes(1) = 1..(MaxSelectVars * NumConfigs)
  /\ \A i \in Probes(1) :
       /\ sent[1][i].path.vi = (i - 1) \div NumConfigs
       /\ sent[1][i].path.ci = (i - 1) % NumConfigs
  /\ QueriesToBackend1(1) = {Len(sent[1])}
  /\ hcall[1].path = sent[1][Len(sent[1])].path /\ InFlight(hcall[1])

====
